---- MODULE Spec2Model ----
(***************************************************************************)
(* RegexpTable (sfkleach/regexptable): a table whose keys are regular      *)
(* expressions and whose values are arbitrary data.  The table joins the   *)
(* registered patterns into one combined pattern, each wrapped in a named  *)
(* group with a synthetic name, and maps the combined match back to the    *)
(* entry that fired.                                                       *)
(*                                                                         *)
(* Text is modelled as text: a pattern is a sequence of tokens, and        *)
(* FormatNamedGroup, anchorPattern and the "|" join are concatenations of  *)
(* token sequences, as in the Go source.  The regexp engine behind the     *)
(* RegexpEngine interface is Go's regexp package; it is modelled by a      *)
(* parser (Compile) and a leftmost-first backtracking matcher              *)
(* (FindStringSubmatch) over these token sequences.                        *)
(*                                                                         *)
(* An input string, and every submatch, is a sequence of one-character     *)
(* strings; the Go empty string "" is the empty sequence.                  *)
(***************************************************************************)
EXTENDS Integers, Sequences, FiniteSets, TLC

(***************************************************************************)
(* Tokens of pattern text.                                                 *)
(***************************************************************************)
\* One token of pattern text: k is the spelling, n the name carried by a
\* named-group opener (or the character of a literal).
Tok(k) == [k |-> k, n |-> <<>>]

Lit(c) == [k |-> "lit", n |-> <<c>>]

\* "(?P<name>" of Go syntax, as written by fmt.Sprintf("(?P<%s>%s)", ...).
NamedOpen(name) == [k |-> "(?P<", n |-> name]

\* strconv of a non-negative int: its decimal digits, most significant first.
DigitChar == <<"0", "1", "2", "3", "4", "5", "6", "7", "8", "9">>

RECURSIVE Itoa(_)
Itoa(k) == IF k < 10 THEN <<DigitChar[k + 1]>>
           ELSE Itoa(k \div 10) \o <<DigitChar[(k % 10) + 1]>>

\* The reserved prefix of synthetic group names.
ReservedPrefix == "__REGEXPTABLE_"

\* A variant that gives every id the name of id 1; C9 tells it from
\* SyntheticName.
SyntheticNameOfOne(id) == <<ReservedPrefix, "1", "__">>

\* fmt.Sprintf("__REGEXPTABLE_%d__", id)
SyntheticName(id) == <<ReservedPrefix>> \o Itoa(id) \o <<"__">>

\* strings.HasPrefix(name, "__REGEXPTABLE_")
HasReservedPrefix(name) == Len(name) > 0 /\ name[1] = ReservedPrefix

(***************************************************************************)
(* The regexp engine: Compile.                                             *)
(***************************************************************************)
NoEngineErr == [code |-> "", expr |-> <<>>]

EngineErr(code, expr) == [code |-> code, expr |-> expr]

NoNode == [op |-> "none"]

PFail(err) == [err |-> err, node |-> NoNode, i |-> 0, caps |-> <<>>]

POk(node, i, caps) == [err |-> NoEngineErr, node |-> node, i |-> i, caps |-> caps]

IsOpener(t) == t.k \in {"(", "(?:", "(?P<"}

\* Recursive-descent parse of toks from position i; caps is the list of group
\* names seen so far (position 1 is the whole match, named "").  Errors are
\* those of regexp/syntax, found in left-to-right order.  Each step hands the
\* result of the step before it to the operator that continues from it.
RECURSIVE ParseAlt(_, _, _), ParseCat(_, _, _), ParseGroup(_, _, _)

\* The group names once the group opened by token t is entered.
GroupCaps(t, caps) ==
    IF t.k = "(?:" THEN caps
    ELSE IF t.k = "(" THEN Append(caps, <<>>)
    ELSE Append(caps, t.n)

\* The group opened by t, whose body parsed as r, with idx its capture index.
GroupDone(toks, t, idx, r) ==
    IF r.err # NoEngineErr THEN r
    ELSE IF r.i > Len(toks) THEN PFail(EngineErr("missing closing )", toks))
    ELSE POk(IF t.k = "(?:" THEN r.node
             ELSE [op |-> "cap", idx |-> idx, sub |-> r.node],
             r.i + 1, r.caps)

ParseGroup(toks, i, caps) ==
    GroupDone(toks, toks[i], Len(GroupCaps(toks[i], caps)),
              ParseAlt(toks, i + 1, GroupCaps(toks[i], caps)))

\* One atom: a literal, an anchor or a group.
ParseAtom(toks, i, caps) ==
    IF toks[i].k = "lit" THEN POk([op |-> "lit", c |-> toks[i].n[1]], i + 1, caps)
    ELSE IF toks[i].k = "^" THEN POk([op |-> "bol"], i + 1, caps)
    ELSE IF toks[i].k = "$" THEN POk([op |-> "eol"], i + 1, caps)
    ELSE IF IsOpener(toks[i]) THEN ParseGroup(toks, i, caps)
    ELSE IF toks[i].k = "*"
    THEN PFail(EngineErr("missing argument to repetition operator", <<toks[i]>>))
    ELSE PFail(EngineErr("missing closing ]", SubSeq(toks, i, Len(toks))))

\* The atom a is followed by a star.
Starred(toks, a) == a.i <= Len(toks) /\ toks[a.i].k = "*"

\* The atom a followed by what rest parsed to.
CatJoin(toks, a, rest) ==
    IF rest.err # NoEngineErr THEN rest
    ELSE POk([op |-> "cat",
              l |-> IF Starred(toks, a) THEN [op |-> "star", sub |-> a.node]
                    ELSE a.node,
              r |-> rest.node],
             rest.i, rest.caps)

\* The concatenation that starts with the atom a.
CatAfterAtom(toks, a) ==
    IF a.err # NoEngineErr THEN a
    ELSE IF Starred(toks, a) /\ a.i + 1 <= Len(toks) /\ toks[a.i + 1].k = "*"
    THEN PFail(EngineErr("invalid nested repetition operator",
                         <<toks[a.i], toks[a.i + 1]>>))
    ELSE CatJoin(toks, a,
                 ParseCat(toks, IF Starred(toks, a) THEN a.i + 1 ELSE a.i, a.caps))

ParseCat(toks, i, caps) ==
    IF i > Len(toks) \/ toks[i].k \in {"|", ")"}
    THEN POk([op |-> "empty"], i, caps)
    ELSE CatAfterAtom(toks, ParseAtom(toks, i, caps))

\* The alternation of c and r.
AltJoin(c, r) ==
    IF r.err # NoEngineErr THEN r
    ELSE POk([op |-> "alt", l |-> c.node, r |-> r.node], r.i, r.caps)

\* The alternation that starts with the concatenation c.
AltAfterCat(toks, c) ==
    IF c.err # NoEngineErr THEN c
    ELSE IF c.i <= Len(toks) /\ toks[c.i].k = "|"
    THEN AltJoin(c, ParseAlt(toks, c.i + 1, c.caps))
    ELSE c

ParseAlt(toks, i, caps) == AltAfterCat(toks, ParseCat(toks, i, caps))

\* The nil CompiledRegexp.
NilRegexp == [nil |-> TRUE, names |-> <<>>, prog |-> NoNode]

\* What Compile returns for a pattern that parsed as r.
Compiled(pattern, r) ==
    IF r.err # NoEngineErr THEN [re |-> NilRegexp, err |-> r.err]
    ELSE IF r.i <= Len(pattern)
    THEN [re |-> NilRegexp, err |-> EngineErr("unexpected )", pattern)]
    ELSE [re |-> [nil |-> FALSE, names |-> r.caps, prog |-> r.node],
          err |-> NoEngineErr]

\* StandardRegexpEngine.Compile: regexp.Compile(pattern), wrapped.
Compile(pattern) == Compiled(pattern, ParseAlt(pattern, 1, << <<>> >>))

\* StandardRegexpEngine.FormatNamedGroup: fmt.Sprintf("(?P<%s>%s)", name, pattern)
FormatNamedGroup(groupName, pattern) ==
    <<NamedOpen(groupName)>> \o pattern \o <<Tok(")")>>

\* StandardCompiledRegexp.SubexpNames
SubexpNames(re) == re.names

(***************************************************************************)
(* The regexp engine: matching.                                            *)
(***************************************************************************)
\* The capture array of a match in progress: caps[k] is <<>> while group k has
\* not taken part, and <<text>> once it has matched text (which may be empty).
Unset == <<>>

\* All ways node n matches s from position i, in the engine's order of
\* preference (leftmost-first).
RECURSIVE Paths(_, _, _, _), Then(_, _, _)
Then(rs, n, s) ==
    IF rs = <<>> THEN <<>>
    ELSE Paths(n, s, Head(rs).i, Head(rs).caps) \o Then(Tail(rs), n, s)

Paths(n, s, i, caps) ==
    CASE n.op = "empty" -> << [i |-> i, caps |-> caps] >>
      [] n.op = "lit" -> IF i <= Len(s) /\ s[i] = n.c
                         THEN << [i |-> i + 1, caps |-> caps] >> ELSE <<>>
      [] n.op = "bol" -> IF i = 1 THEN << [i |-> i, caps |-> caps] >> ELSE <<>>
      [] n.op = "eol" -> IF i = Len(s) + 1 THEN << [i |-> i, caps |-> caps] >> ELSE <<>>
      [] n.op = "cat" -> Then(Paths(n.l, s, i, caps), n.r, s)
      [] n.op = "alt" -> Paths(n.l, s, i, caps) \o Paths(n.r, s, i, caps)
      [] n.op = "cap" ->
            LET rs == Paths(n.sub, s, i, caps)
            IN  [k \in 1..Len(rs) |->
                    [i |-> rs[k].i,
                     caps |-> [rs[k].caps EXCEPT
                                 ![n.idx] = <<SubSeq(s, i, rs[k].i - 1)>>]]]
      [] n.op = "star" ->
            LET once == SelectSeq(Paths(n.sub, s, i, caps), LAMBDA r : r.i > i)
            IN  Then(once, n, s) \o << [i |-> i, caps |-> caps] >>

\* The leftmost match of re in s, starting the search at position start: the
\* capture array of the preferred match at the first position that has one.
RECURSIVE FindFrom(_, _, _)
FindFrom(re, s, start) ==
    IF start > Len(s) + 1 THEN [nil |-> TRUE, caps |-> <<>>]
    ELSE LET rs == Paths(re.prog, s, start, [k \in 1..Len(re.names) |-> Unset])
         IN  IF rs = <<>> THEN FindFrom(re, s, start + 1)
             ELSE [nil |-> FALSE,
                   caps |-> [rs[1].caps EXCEPT ![1] = <<SubSeq(s, start, rs[1].i - 1)>>]]

\* The nil []string.
NilMatches == [nil |-> TRUE, v |-> <<>>]

\* StandardCompiledRegexp.FindStringSubmatch: the text of every group, a group
\* that took no part giving the empty string.
FindStringSubmatch(re, s) ==
    LET f == FindFrom(re, s, 1)
    IN  IF f.nil THEN NilMatches
        ELSE [nil |-> FALSE,
              v |-> [k \in 1..Len(f.caps) |->
                        IF f.caps[k] = Unset THEN <<>> ELSE f.caps[k][1]]]

(***************************************************************************)
(* Errors and results.                                                     *)
(***************************************************************************)
\* An error value: kind is the fixed part of the message, items the lines
\* naming invalid patterns, cause the wrapped engine error (%w).
MkErr(kind, items, cause) == [kind |-> kind, items |-> items, cause |-> cause]

NoErr == MkErr("nil", <<>>, NoEngineErr)

ErrNoMatch == MkErr("no pattern matched", <<>>, NoEngineErr)

\* A variant in which the table without entries reports a miss; C6 tells it
\* from ErrNoPatterns.
ErrNoPatternsAsMiss == MkErr("no pattern matched", <<>>, NoEngineErr)

ErrNoPatterns == MkErr("no patterns configured", <<>>, NoEngineErr)

ErrInternal ==
    MkErr("internal error: match found but no capture group matched", <<>>, NoEngineErr)

ErrInvalidPatterns(items) ==
    MkErr("failed to compile union regexp due to invalid patterns", items, NoEngineErr)

ErrUnion(cause) == MkErr("failed to compile union regexp", <<>>, cause)

\* A run-time panic (index out of range) unwinding out of the call.
Panic == MkErr("panic: index out of range", <<>>, NoEngineErr)

IsCompileErr(err) ==
    err.kind \in {"failed to compile union regexp due to invalid patterns",
                  "failed to compile union regexp"}

\* The zero value of T.
Zero == 0

(***************************************************************************)
(* RegexpTable.  A table is a record of the struct's fields; lookup holds  *)
(* pointers to entries, modelled as positions in maplets (0 is nil).       *)
(***************************************************************************)
NewRegexpTable(anchorStart, anchorEnd) ==
    [compiled |-> NilRegexp,
     lookup |-> <<>>,
     maplets |-> <<>>,
     nextGroupID |-> 1,
     needsRecompile |-> FALSE,
     anchorStart |-> anchorStart,
     anchorEnd |-> anchorEnd]

\* A variant of AddPattern that leaves needsRecompile as it was; C3 tells it
\* from AddPattern.
AddPatternKeepingClean(rt, pattern, value) ==
    LET groupName == <<ReservedPrefix>> \o Itoa(rt.nextGroupID) \o <<"__">>
    IN  [rt |-> [rt EXCEPT
                   !.nextGroupID = rt.nextGroupID + 1,
                   !.maplets = Append(rt.maplets,
                                      [GroupName |-> groupName,
                                       namedPattern |->
                                           FormatNamedGroup(groupName, pattern),
                                       Value |-> value,
                                       Pattern |-> pattern,
                                       compiledPattern |-> NilRegexp])],
         err |-> NoErr]

\* A variant of anchorPattern that never appends "$"; C12 tells it from
\* anchorPattern.
anchorPatternWithoutEnd(rt, pattern) ==
    IF rt.anchorStart
    THEN <<Tok("^"), Tok("(?:")>> \o pattern \o <<Tok(")")>>
    ELSE <<Tok("(?:")>> \o pattern \o <<Tok(")")>>

\* A variant of AddPattern that also drops the compiled matcher; C23 tells it
\* from AddPattern.
AddPatternDroppingMatcher(rt, pattern, value) ==
    LET a == AddPatternKeepingClean(rt, pattern, value)
    IN  [rt |-> [a.rt EXCEPT !.needsRecompile = TRUE, !.compiled = NilRegexp],
         err |-> a.err]

\* AddPattern: returns the table after the call and the error (always nil).
AddPattern(rt, pattern, value) ==
    LET groupName == SyntheticName(rt.nextGroupID)
        namedPattern == FormatNamedGroup(groupName, pattern)
    IN  [rt |-> [rt EXCEPT
                   !.nextGroupID = rt.nextGroupID + 1,
                   !.maplets = Append(rt.maplets,
                                      [GroupName |-> groupName,
                                       namedPattern |-> namedPattern,
                                       Value |-> value,
                                       Pattern |-> pattern,
                                       compiledPattern |-> NilRegexp]),
                   !.needsRecompile = TRUE],
         err |-> NoErr]

\* A variant of anchorPattern that puts the anchors around the bare pattern,
\* without the group; C24 tells it from anchorPattern.
anchorPatternUngrouped(rt, pattern) ==
    (IF rt.anchorStart THEN <<Tok("^")>> ELSE <<>>)
    \o pattern
    \o (IF rt.anchorEnd THEN <<Tok("$")>> ELSE <<>>)

anchorPattern(rt, pattern) ==
    LET opened == IF rt.anchorStart
                  THEN <<Tok("^"), Tok("(?:")>> \o pattern \o <<Tok(")")>>
                  ELSE <<Tok("(?:")>> \o pattern \o <<Tok(")")>>
    IN  IF rt.anchorEnd THEN opened \o <<Tok("$")>> ELSE opened

\* The line that validatePatterns adds for entry vp, whose anchored pattern
\* compiled as c: none when it compiled.
invalidPattern(vp, c) ==
    IF c.err # NoEngineErr
    THEN << [group |-> vp.GroupName, pattern |-> vp.Pattern, err |-> c.err] >>
    ELSE <<>>

\* A variant of the loop of validatePatterns that stops at the first entry that
\* does not compile; C22 tells it from validateFrom.
RECURSIVE validateFromFirstOnly(_, _)
validateFromFirstOnly(rt, k) ==
    IF k > Len(rt.maplets) THEN <<>>
    ELSE IF Compile(anchorPattern(rt, rt.maplets[k].Pattern)).err # NoEngineErr
    THEN invalidPattern(rt.maplets[k], Compile(anchorPattern(rt, rt.maplets[k].Pattern)))
    ELSE validateFromFirstOnly(rt, k + 1)

RECURSIVE validateFrom(_, _)
validateFrom(rt, k) ==
    IF k > Len(rt.maplets) THEN <<>>
    ELSE invalidPattern(rt.maplets[k], Compile(anchorPattern(rt, rt.maplets[k].Pattern)))
         \o validateFrom(rt, k + 1)

validatePatterns(rt) == validateFrom(rt, 1)

\* The entries' named patterns joined by "|".
RECURSIVE unionFrom(_, _)
unionFrom(maplets, k) ==
    IF k > Len(maplets) THEN <<>>
    ELSE (IF k > 1 THEN <<Tok("|")>> ELSE <<>>)
         \o maplets[k].namedPattern \o unionFrom(maplets, k + 1)

unionPattern(rt) == unionFrom(rt.maplets, 1)

\* A variant of the loop of Recompile that appends nothing for a group that is
\* not synthetic; C10 tells it from buildLookup.
RECURSIVE buildLookupUnpadded(_, _, _, _, _)
buildLookupUnpadded(names, k, n, acc, numEntries) ==
    IF k > Len(names) THEN [panic |-> FALSE, lookup |-> acc]
    ELSE IF HasReservedPrefix(names[k])
    THEN IF n >= numEntries THEN [panic |-> TRUE, lookup |-> acc]
         ELSE buildLookupUnpadded(names, k + 1, n + 1, Append(acc, n + 1), numEntries)
    ELSE buildLookupUnpadded(names, k + 1, n, acc, numEntries)

\* The loop of Recompile that builds the lookup slice from the group names:
\* k is the position in names, n the number of entries used so far.
RECURSIVE buildLookup(_, _, _, _, _)
buildLookup(names, k, n, acc, numEntries) ==
    IF k > Len(names) THEN [panic |-> FALSE, lookup |-> acc]
    ELSE IF HasReservedPrefix(names[k])
    THEN IF n >= numEntries THEN [panic |-> TRUE, lookup |-> acc]
         ELSE buildLookup(names, k + 1, n + 1, Append(acc, n + 1), numEntries)
    ELSE buildLookup(names, k + 1, n, Append(acc, 0), numEntries)

\* A variant of unionFailed that takes the entry added last back out of the
\* table; C28 tells it from unionFailed.
unionFailedRollingBack(rt, invalidPatterns, cause) ==
    [rt |-> [rt EXCEPT !.maplets = SubSeq(rt.maplets, 1, Len(rt.maplets) - 1)],
     err |-> IF Len(invalidPatterns) > 0
             THEN ErrInvalidPatterns(invalidPatterns)
             ELSE ErrUnion(cause)]

\* Recompile after the union failed to compile with the error cause.
unionFailed(rt, invalidPatterns, cause) ==
    [rt |-> rt,
     err |-> IF Len(invalidPatterns) > 0
             THEN ErrInvalidPatterns(invalidPatterns)
             ELSE ErrUnion(cause)]

\* Recompile after the loop over the group names gave b.
lookupBuilt(rt, b) ==
    IF b.panic
    THEN [rt |-> [rt EXCEPT !.lookup = b.lookup], err |-> Panic]
    ELSE [rt |-> [rt EXCEPT !.lookup = b.lookup, !.needsRecompile = FALSE],
          err |-> NoErr]

\* Recompile once rt.compiled holds what the engine returned for the union.
unionCompiled(rt, err) ==
    IF err # NoEngineErr
    THEN unionFailed(rt, validatePatterns(rt), err)
    ELSE lookupBuilt(rt, buildLookup(SubexpNames(rt.compiled), 1, 0, <<>>,
                                     Len(rt.maplets)))

\* rt.compiled, err = rt.engine.Compile(anchoredUnionPattern)
assignCompiled(rt, c) == unionCompiled([rt EXCEPT !.compiled = c.re], c.err)

\* A variant of Recompile that reports a table of no entries as an error; C21
\* tells it from Recompile.
RecompileRejectingEmpty(rt) ==
    IF Len(rt.maplets) = 0
    THEN [rt |-> rt, err |-> ErrNoPatterns]
    ELSE assignCompiled(rt, Compile(anchorPattern(rt, unionPattern(rt))))

Recompile(rt) ==
    IF Len(rt.maplets) = 0
    THEN [rt |-> [rt EXCEPT !.compiled = NilRegexp, !.needsRecompile = FALSE],
          err |-> NoErr]
    ELSE assignCompiled(rt, Compile(anchorPattern(rt, unionPattern(rt))))

\* AddAndCheckPattern after AddPattern returned a.
checkAdded(a) == IF a.err # NoErr THEN a ELSE Recompile(a.rt)

AddAndCheckPattern(rt, pattern, value) == checkAdded(AddPattern(rt, pattern, value))

\* A variant of ensureCompiled that drops the error of Recompile; C5 tells it
\* from ensureCompiled.
ensureCompiledDroppingError(rt) ==
    IF rt.needsRecompile \/ rt.compiled.nil
    THEN [rt |-> Recompile(rt).rt, err |-> NoErr]
    ELSE [rt |-> rt, err |-> NoErr]

ensureCompiled(rt) ==
    IF rt.needsRecompile \/ rt.compiled.nil THEN Recompile(rt)
    ELSE [rt |-> rt, err |-> NoErr]

\* What a lookup returns, with the table it leaves behind.
LookupResult(rt, value, matches, err) ==
    [rt |-> rt, value |-> value, matches |-> matches, err |-> err]

\* The first position of the lookup slice, from i on, that holds an entry whose
\* submatch is there and not empty; 0 when there is none.
RECURSIVE scanLookup(_, _, _)
scanLookup(lookup, matches, i) ==
    IF i > Len(lookup) THEN 0
    ELSE IF lookup[i] # 0 /\ i <= Len(matches) /\ matches[i] # <<>> THEN i
    ELSE scanLookup(lookup, matches, i + 1)

\* A variant of the inner loop that runs on to the end of the submatches
\* instead of stopping at the next entry; C1 tells it from collectMatches.
RECURSIVE collectToEnd(_, _, _, _)
collectToEnd(lookup, matches, j, acc) ==
    IF j > Len(matches) THEN [panic |-> FALSE, v |-> acc]
    ELSE collectToEnd(lookup, matches, j + 1, Append(acc, matches[j]))

\* The inner loop of Lookup: the submatches after the winner's group, up to the
\* next position that holds an entry.  Reading past the end of matches panics.
RECURSIVE collectMatches(_, _, _, _)
collectMatches(lookup, matches, j, acc) ==
    IF j > Len(lookup) \/ lookup[j] # 0 THEN [panic |-> FALSE, v |-> acc]
    ELSE IF j > Len(matches) THEN [panic |-> TRUE, v |-> acc]
    ELSE collectMatches(lookup, matches, j + 1, Append(acc, matches[j]))

\* The second loop of Lookup: test each entry's own pattern, in order, compiling
\* and caching it on first use.
RECURSIVE fallbackFrom(_, _, _)

\* A variant of individualMatched that returns the submatch list of the
\* combined matcher with the winner; C25 tells it from individualMatched.
individualMatchedReturningCombined(rt, input, k, individualMatches) ==
    IF ~individualMatches.nil
    THEN LookupResult(rt, rt.maplets[k].Value, FindStringSubmatch(rt.compiled, input),
                      NoErr)
    ELSE fallbackFrom(rt, input, k + 1)

\* Entry k, whose own pattern gave individualMatches.
individualMatched(rt, input, k, individualMatches) ==
    IF ~individualMatches.nil
    THEN LookupResult(rt, rt.maplets[k].Value, individualMatches, NoErr)
    ELSE fallbackFrom(rt, input, k + 1)

\* A variant of individualCompiled that caches the entry's pattern compiled
\* without the table's anchors; C11 tells it from individualCompiled.
individualCompiledCachingUnanchored(rt, input, k, c) ==
    IF c.err # NoEngineErr THEN fallbackFrom(rt, input, k + 1)
    ELSE individualMatched(
             [rt EXCEPT !.maplets[k].compiledPattern = Compile(rt.maplets[k].Pattern).re],
             input, k, FindStringSubmatch(c.re, input))

\* Entry k, whose own pattern is compiled as c: skipped when that failed.
individualCompiled(rt, input, k, c) ==
    IF c.err # NoEngineErr THEN fallbackFrom(rt, input, k + 1)
    ELSE individualMatched([rt EXCEPT !.maplets[k].compiledPattern = c.re], input, k,
                           FindStringSubmatch(c.re, input))

\* A variant of the second loop that tests the entries with a cached
\* compilation only; C26 tells it from fallbackFrom.
RECURSIVE fallbackFromCacheOnly(_, _, _)
fallbackFromCacheOnly(rt, input, k) ==
    IF k > Len(rt.maplets) THEN LookupResult(rt, Zero, NilMatches, ErrInternal)
    ELSE IF rt.maplets[k].compiledPattern.nil THEN fallbackFromCacheOnly(rt, input, k + 1)
    ELSE individualCompiled(rt, input, k,
             [re |-> rt.maplets[k].compiledPattern, err |-> NoEngineErr])

fallbackFrom(rt, input, k) ==
    IF k > Len(rt.maplets) THEN LookupResult(rt, Zero, NilMatches, ErrInternal)
    ELSE individualCompiled(rt, input, k,
             IF ~rt.maplets[k].compiledPattern.nil
             THEN [re |-> rt.maplets[k].compiledPattern, err |-> NoEngineErr]
             ELSE Compile(anchorPattern(rt, rt.maplets[k].Pattern)))

\* Lookup after the first loop found the winner at position i and collected our.
winnerFound(rt, i, our) ==
    IF our.panic THEN LookupResult(rt, Zero, NilMatches, Panic)
    ELSE LookupResult(rt, rt.maplets[rt.lookup[i]].Value,
                      [nil |-> FALSE, v |-> our.v], NoErr)

\* Lookup after the first loop ended at position i (0: no winner).
scanned(rt, input, matches, i) ==
    IF i # 0
    THEN winnerFound(rt, i, collectMatches(rt.lookup, matches.v, i + 1,
                                           <<matches.v[i]>>))
    ELSE fallbackFrom(rt, input, 1)

\* A variant of matched that returns an empty submatch list, not nil, when
\* nothing matched; C27 tells it from matched.
matchedReturningEmptyList(rt, input, matches) ==
    IF matches.nil
    THEN LookupResult(rt, Zero, [nil |-> FALSE, v |-> <<>>], ErrNoMatch)
    ELSE scanned(rt, input, matches, scanLookup(rt.lookup, matches.v, 1))

\* Lookup after the combined matcher returned matches.
matched(rt, input, matches) ==
    IF matches.nil THEN LookupResult(rt, Zero, NilMatches, ErrNoMatch)
    ELSE scanned(rt, input, matches, scanLookup(rt.lookup, matches.v, 1))

\* Lookup after ensureCompiled returned e.
compiledFor(input, e) ==
    IF e.err # NoErr THEN LookupResult(e.rt, Zero, NilMatches, e.err)
    ELSE IF e.rt.compiled.nil
    THEN LookupResult(e.rt, Zero, NilMatches, ErrNoPatterns)
    ELSE matched(e.rt, input, FindStringSubmatch(e.rt.compiled, input))

Lookup(rt, input) == compiledFor(input, ensureCompiled(rt))

\* TryLookup after Lookup returned r.
tryResult(r) ==
    [rt |-> r.rt, value |-> r.value, matches |-> r.matches, found |-> r.err = NoErr,
     panicked |-> r.err = Panic]

TryLookup(rt, input) == tryResult(Lookup(rt, input))

\* A variant of orElseResult that hands back what Lookup returned, the zero
\* value on an error; C13 tells it from orElseResult.
orElseResultIgnoringDefault(r, defaultValue) ==
    [rt |-> r.rt, value |-> r.value,
     matches |-> IF r.err # NoErr THEN [nil |-> FALSE, v |-> <<>>] ELSE r.matches,
     panicked |-> r.err = Panic]

\* LookupOrElse after Lookup returned r.
orElseResult(r, defaultValue) ==
    IF r.err # NoErr
    THEN [rt |-> r.rt, value |-> defaultValue, matches |-> [nil |-> FALSE, v |-> <<>>],
          panicked |-> r.err = Panic]
    ELSE [rt |-> r.rt, value |-> r.value, matches |-> r.matches, panicked |-> FALSE]

LookupOrElse(rt, input, defaultValue) == orElseResult(Lookup(rt, input), defaultValue)

(***************************************************************************)
(* Lookup, step by step, for lookups that run side by side.  The code up   *)
(* to the end of the first loop reads the table only (and, through         *)
(* ensureCompiled, may run Recompile); the second loop reads an entry's    *)
(* cache, compiles the entry's pattern when the cache is nil, and stores   *)
(* the result in the cache in a separate step.                             *)
(***************************************************************************)
\* The outcome of Lookup before its second loop: final when it has returned.
Returned(r) == [final |-> TRUE, r |-> r]

ToSecondLoop(rt) == [final |-> FALSE, r |-> LookupResult(rt, Zero, NilMatches, NoErr)]

firstLoopEnded(rt, matches, i) ==
    IF i # 0
    THEN Returned(winnerFound(rt, i, collectMatches(rt.lookup, matches.v, i + 1,
                                                    <<matches.v[i]>>)))
    ELSE ToSecondLoop(rt)

combinedMatched(rt, matches) ==
    IF matches.nil THEN Returned(LookupResult(rt, Zero, NilMatches, ErrNoMatch))
    ELSE firstLoopEnded(rt, matches, scanLookup(rt.lookup, matches.v, 1))

ensured(input, e) ==
    IF e.err # NoErr THEN Returned(LookupResult(e.rt, Zero, NilMatches, e.err))
    ELSE IF e.rt.compiled.nil
    THEN Returned(LookupResult(e.rt, Zero, NilMatches, ErrNoPatterns))
    ELSE combinedMatched(e.rt, FindStringSubmatch(e.rt.compiled, input))

\* Lookup up to the end of its first loop.
lookupToFirstLoop(rt, input) == ensured(input, ensureCompiled(rt))

\* The fields of the table that Recompile assigns when it returns r.
recompileWrites(rt, r) ==
    IF Len(rt.maplets) = 0 THEN {"compiled", "needsRecompile"}
    ELSE IF r.err = NoErr THEN {"compiled", "lookup", "needsRecompile"}
    ELSE IF r.err = Panic THEN {"compiled", "lookup"}
    ELSE {"compiled"}

\* The fields of the table that ensureCompiled assigns.
ensureCompiledWrites(rt) ==
    IF rt.needsRecompile \/ rt.compiled.nil THEN recompileWrites(rt, Recompile(rt))
    ELSE {}

\* A read of an interface value that races with its assignment may see the
\* type word without the data word: the method call then dereferences nil.
PanicNilDereference == MkErr("panic: nil pointer dereference", <<>>, NoEngineErr)

\* The second loop at entry k, with the entry's pattern compiled as re.
individualTested(rt, k, individualMatches) ==
    IF ~individualMatches.nil
    THEN Returned(LookupResult(rt, rt.maplets[k].Value, individualMatches, NoErr))
    ELSE ToSecondLoop(rt)

(***************************************************************************)
(* Removal.  The README documents RemovePattern(patternID) and             *)
(* RemovePatternThenRecompile(patternID); the identifier of an entry is    *)
(* the number in its synthetic group name.  Removal deletes the entry and  *)
(* marks the table dirty; an identifier that names no entry is an error.   *)
(***************************************************************************)
ErrNotFound == MkErr("pattern not found", <<>>, NoEngineErr)

HasPatternID(rt, patternID) ==
    \E k \in 1..Len(rt.maplets) : rt.maplets[k].GroupName = SyntheticName(patternID)

\* The entries of rt other than the one named patternID, in order.
WithoutPatternID(rt, patternID) ==
    SelectSeq(rt.maplets, LAMBDA vp : vp.GroupName # SyntheticName(patternID))

\* A variant of RemovePattern that leaves the dirty flag as it is; C14 tells
\* it from RemovePattern.
RemovePatternKeepingClean(rt, patternID) ==
    IF ~HasPatternID(rt, patternID) THEN [rt |-> rt, err |-> ErrNotFound]
    ELSE [rt |-> [rt EXCEPT !.maplets = WithoutPatternID(rt, patternID)],
          err |-> NoErr]

RemovePattern(rt, patternID) ==
    IF ~HasPatternID(rt, patternID) THEN [rt |-> rt, err |-> ErrNotFound]
    ELSE [rt |-> [rt EXCEPT !.maplets = WithoutPatternID(rt, patternID),
                            !.needsRecompile = TRUE],
          err |-> NoErr]

RemovePatternThenRecompile(rt, patternID) == checkAdded(RemovePattern(rt, patternID))

(***************************************************************************)
(* RegexpTableBuilder.  The builder keeps its patterns in a Go slice: a    *)
(* backing array, a length and a capacity.  The arrays live in a heap, so  *)
(* that two slices over one array share its elements: append writes in     *)
(* place while the capacity lasts and moves to a new array of twice the    *)
(* capacity when it does not, and b.patterns[:0] keeps the array.  A world *)
(* is the heap, the builders and the sub-builder.                          *)
(***************************************************************************)
\* The zero value of patternEntry[T].
ZeroEntry == [pattern |-> <<>>, value |-> Zero]

\* make([]patternEntry[T], 0): no element, no capacity.
EmptySlice == [arr |-> 0, len |-> 0]

Cap(arrays, sl) == IF sl.arr = 0 THEN 0 ELSE Len(arrays[sl.arr])

\* The elements of a slice.
Elems(arrays, sl) == [i \in 1..sl.len |-> arrays[sl.arr][i]]

\* append(sl, x) once the capacity is used up: a new array of twice the
\* capacity (of one element when there was none).
grown(arrays, sl, x, newcap) ==
    [arrays |-> Append(arrays,
                       [i \in 1..newcap |->
                           IF i <= sl.len THEN arrays[sl.arr][i]
                           ELSE IF i = sl.len + 1 THEN x ELSE ZeroEntry]),
     sl |-> [arr |-> Len(arrays) + 1, len |-> sl.len + 1]]

\* append(sl, x)
appendSlice(arrays, sl, x) ==
    IF sl.len < Cap(arrays, sl)
    THEN [arrays |-> [arrays EXCEPT ![sl.arr][sl.len + 1] = x],
          sl |-> [sl EXCEPT !.len = sl.len + 1]]
    ELSE grown(arrays, sl, x, IF Cap(arrays, sl) = 0 THEN 1 ELSE 2 * Cap(arrays, sl))

\* The builders of the model: the one the caller made, and its clone.
BuilderIDs == {1, 2}

NoBuilder == [exists |-> FALSE, patterns |-> EmptySlice, engine |-> ""]

NewRegexpTableBuilder ==
    [exists |-> TRUE, patterns |-> EmptySlice, engine |-> "StandardRegexpEngine"]

NewRegexpTableBuilderWithEngine(engine) ==
    [exists |-> TRUE, patterns |-> EmptySlice, engine |-> engine]

NoSubBuilder == [exists |-> FALSE, parent |-> 0, subPatterns |-> <<>>]

\* The patterns of builder b of world w, in order.
BuilderEntries(w, b) == Elems(w.arrays, w.builders[b].patterns)

\* Builder b after its append returned a.
appended(w, b, a) ==
    [w EXCEPT !.arrays = a.arrays, !.builders[b].patterns = a.sl]

BuilderAddPattern(w, b, pattern, value) ==
    appended(w, b, appendSlice(w.arrays, w.builders[b].patterns,
                               [pattern |-> pattern, value |-> value]))

\* The patterns from the i-th on, each after a "|" but the first.
RECURSIVE alternationFrom(_, _)
alternationFrom(patterns, i) ==
    IF i > Len(patterns) THEN <<>>
    ELSE (IF i > 1 THEN <<Tok("|")>> ELSE <<>>)
         \o patterns[i] \o alternationFrom(patterns, i + 1)

\* A variant of AddSubPatterns that wraps a single pattern too; C18 tells it
\* from AddSubPatterns.
AddSubPatternsAlwaysWrapping(w, b, patterns, value) ==
    IF Len(patterns) = 0 THEN w
    ELSE BuilderAddPattern(w, b,
             <<Tok("(?:")>> \o alternationFrom(patterns, 1) \o <<Tok(")")>>, value)

AddSubPatterns(w, b, patterns, value) ==
    IF Len(patterns) = 0 THEN w
    ELSE IF Len(patterns) = 1 THEN BuilderAddPattern(w, b, patterns[1], value)
    ELSE BuilderAddPattern(w, b,
             <<Tok("(?:")>> \o alternationFrom(patterns, 1) \o <<Tok(")")>>, value)

Clear(w, b) == [w EXCEPT !.builders[b].patterns.len = 0]

\* A variant of Clone whose clone takes the slice of the original instead of
\* a copy; C19 tells it from Clone.
CloneSharingSlice(w, b, c) ==
    [w EXCEPT !.builders[c] =
        [NewRegexpTableBuilderWithEngine(w.builders[b].engine)
            EXCEPT !.patterns = w.builders[b].patterns]]

\* Clone of builder b, kept as builder c: make of len(b.patterns) elements,
\* which is a new array unless there is none to hold, and copy.
Clone(w, b, c) ==
    IF w.builders[b].patterns.len = 0
    THEN [w EXCEPT !.builders[c] =
             NewRegexpTableBuilderWithEngine(w.builders[b].engine)]
    ELSE [w EXCEPT !.arrays = Append(w.arrays, BuilderEntries(w, b)),
                   !.builders[c] =
                       [NewRegexpTableBuilderWithEngine(w.builders[b].engine)
                           EXCEPT !.patterns = [arr |-> Len(w.arrays) + 1,
                                                len |-> w.builders[b].patterns.len]]]

BeginAddSubPatterns(w, b) ==
    [w EXCEPT !.sub = [exists |-> TRUE, parent |-> b, subPatterns |-> <<>>]]

AddSubPattern(w, pattern) ==
    [w EXCEPT !.sub.subPatterns = Append(w.sub.subPatterns, pattern)]

\* EndAddSubPatterns after the parent's AddSubPatterns left the world a.
subPatternsEnded(a) == [a EXCEPT !.sub.subPatterns = <<>>]

EndAddSubPatterns(w, value) ==
    subPatternsEnded(AddSubPatterns(w, w.sub.parent, w.sub.subPatterns, value))

\* fmt.Errorf(prefix + "%w", err): the text of err after the prefix.
Wrapped(prefix, err) == [kind |-> prefix, wraps |-> err]

\* A piece of message text: a literal, or the text of an error of the table.
Literal(text) == [text |-> text, err |-> NoErr]

TextOf(err) == [text |-> "", err |-> err]

\* The text of an error, in pieces: a prefix for each wrapping, and then the
\* text of the table's error as one piece.
RECURSIVE ErrorText(_)
ErrorText(err) ==
    IF "wraps" \in DOMAIN err THEN <<Literal(err.kind)>> \o ErrorText(err.wraps)
    ELSE <<TextOf(err)>>

\* What Build returns: the table unless nil, and the error.
BuildResult(nilTable, table, err) == [nil |-> nilTable, table |-> table, err |-> err]

\* Build after table.Recompile() returned r.  A panic of Recompile unwinds
\* through Build, which then returns nothing.
recompiledForBuild(r) ==
    IF r.err = Panic THEN BuildResult(TRUE, r.rt, Panic)
    ELSE IF r.err # NoErr
    THEN BuildResult(TRUE, r.rt, Wrapped("failed to compile regexp table: ", r.err))
    ELSE BuildResult(FALSE, r.rt, NoErr)

\* The loop of Build over the builder's entries, from the i-th on.
RECURSIVE buildFrom(_, _, _)

\* Build after table.AddPattern of the i-th entry returned a.
addedForBuild(a, entries, i) ==
    IF a.err # NoErr
    THEN BuildResult(TRUE, a.rt, Wrapped("invalid pattern: ", a.err))
    ELSE buildFrom(a.rt, entries, i + 1)

buildFrom(rt, entries, i) ==
    IF i > Len(entries) THEN recompiledForBuild(Recompile(rt))
    ELSE addedForBuild(AddPattern(rt, entries[i].pattern, entries[i].value), entries, i)

\* A variant of Build that takes the whole backing array for the patterns,
\* the elements beyond the length included; C20 tells it from Build.
BuildFromArray(w, b, s, e) ==
    buildFrom(NewRegexpTable(s, e),
              Elems(w.arrays, [w.builders[b].patterns EXCEPT
                                  !.len = Cap(w.arrays, w.builders[b].patterns)]),
              1)

Build(w, b, s, e) == buildFrom(NewRegexpTable(s, e), BuilderEntries(w, b), 1)

\* What MustBuild does: it returns the table, or panics with a message.
mustBuilt(r) ==
    IF r.err = Panic
    THEN [nil |-> TRUE, table |-> r.table, panicked |-> TRUE, message |-> <<TextOf(Panic)>>]
    ELSE IF r.err # NoErr
    THEN [nil |-> TRUE, table |-> r.table, panicked |-> TRUE,
          message |-> <<Literal("RegexpTableBuilder.MustBuild failed: ")>>
                      \o ErrorText(r.err)]
    ELSE [nil |-> FALSE, table |-> r.table, panicked |-> FALSE, message |-> <<>>]

MustBuild(w, b, s, e) == mustBuilt(Build(w, b, s, e))

(***************************************************************************)
(* A pluggable engine.  RegexpTable takes any RegexpEngine; the interface  *)
(* asks FindStringSubmatch for a list as long as SubexpNames, but nothing  *)
(* makes an implementation obey.  This engine compiles like the standard   *)
(* one, and the combined matcher it returns hands back at most n elements  *)
(* of a match.                                                             *)
(***************************************************************************)
ShortFindStringSubmatch(re, input, n) ==
    LET m == FindStringSubmatch(re, input)
    IN  IF m.nil \/ Len(m.v) <= n THEN m
        ELSE [nil |-> FALSE, v |-> SubSeq(m.v, 1, n)]

\* Lookup with that engine, after ensureCompiled returned e.
compiledForShort(input, e, n) ==
    IF e.err # NoErr THEN LookupResult(e.rt, Zero, NilMatches, e.err)
    ELSE IF e.rt.compiled.nil
    THEN LookupResult(e.rt, Zero, NilMatches, ErrNoPatterns)
    ELSE matched(e.rt, input, ShortFindStringSubmatch(e.rt.compiled, input, n))

LookupWithShortEngine(rt, input, n) == compiledForShort(input, ensureCompiled(rt), n)

(***************************************************************************)
(* The inputs of the model.                                                *)
(***************************************************************************)
\* The most entries a table is given.
MaxEntries == 2

\* b
PatLit == <<Lit("b")>>

\* (a)(?P<n>b): a pattern with an unnamed and a named capture group of its own
PatGroups == <<Tok("("), Lit("a"), Tok(")"), NamedOpen(<<"n">>), Lit("b"), Tok(")")>>

\* a*: a pattern that matches the empty string
PatStar == <<Lit("a"), Tok("*")>>

\* [ : a character class that is never closed
PatBad == <<Tok("[")>>

\* (b* and a*): each is missing a parenthesis that the other supplies
PatOpen == <<Tok("("), Lit("b"), Tok("*")>>

PatClose == <<Lit("a"), Tok("*"), Tok(")")>>

\* (?P<__REGEXPTABLE_x>a): a group of the pattern's own, named in the reserved namespace
PatReserved == <<NamedOpen(<<ReservedPrefix, "x">>), Lit("a"), Tok(")")>>

Patterns == {PatLit, PatGroups, PatStar, PatBad, PatOpen, PatClose, PatReserved}

\* T is int.  The table never inspects a value, it only stores and returns it:
\* the k-th registration binds the value k, so that the values of a table are
\* pairwise distinct and differ from the zero value and from the default.
NextValue(rt) == Len(rt.maplets) + 1

Defaults == {-1}

Inputs == {<<>>, <<"b">>, <<"a", "b">>, <<"c", "b">>, <<"a">>}

(***************************************************************************)
(* The state machine: one table and the return of the last call on it.     *)
(***************************************************************************)
VARIABLES compiled, lookup, maplets, nextGroupID, needsRecompile,
          anchorStart, anchorEnd, ret,
          threads,      \* the lookups that run side by side, each at its step
          written,      \* the fields of the table that a lookup has assigned
          cacheWrites,  \* per entry, the assignments to its compiledPattern
          arrays,       \* the backing arrays of the builders' slices
          builders,     \* the builder and its clone
          sub           \* the sub-builder

vars == <<compiled, lookup, maplets, nextGroupID, needsRecompile,
          anchorStart, anchorEnd, ret, threads, written, cacheWrites,
          arrays, builders, sub>>

\* The builders as a world.
World == [arrays |-> arrays, builders |-> builders, sub |-> sub]

\* The arrays some builder's slice still points to.
Live(w) == {w.builders[b].patterns.arr : b \in BuilderIDs} \ {0}

Rank(S, x) == Cardinality({y \in S : y <= x})

\* The world once the garbage collector has freed the arrays that no slice
\* points to: the arrays left are numbered anew, in their order.
Collected(w) ==
    [w EXCEPT
       !.arrays = [i \in 1..Cardinality(Live(w)) |->
                      w.arrays[CHOOSE x \in Live(w) : Rank(Live(w), x) = i]],
       !.builders = [b \in BuilderIDs |->
                       [w.builders[b] EXCEPT
                          !.patterns.arr = IF @ = 0 THEN 0 ELSE Rank(Live(w), @)]]]

StoreCollected(w) ==
    /\ arrays' = w.arrays
    /\ builders' = w.builders
    /\ sub' = w.sub

StoreWorld(w) == StoreCollected(Collected(w))

OneBuilder ==
    /\ arrays = <<>>
    /\ builders = [b \in BuilderIDs |-> IF b = 1 THEN NewRegexpTableBuilder ELSE NoBuilder]
    /\ sub = NoSubBuilder

\* The lookups that run side by side.
NumThreads == 2

Threads == 1..NumThreads

IdleThread == [pc |-> "idle", input |-> <<>>, k |-> 0, re |-> NilRegexp,
               value |-> Zero, matches |-> NilMatches, err |-> NoErr]

NoThreadRuns ==
    /\ threads = [t \in Threads |-> IdleThread]
    /\ written = {}
    /\ cacheWrites = [k \in 1..MaxEntries |-> 0]
    /\ OneBuilder

\* The table as a record of its fields.
RT == [compiled |-> compiled, lookup |-> lookup, maplets |-> maplets,
       nextGroupID |-> nextGroupID, needsRecompile |-> needsRecompile,
       anchorStart |-> anchorStart, anchorEnd |-> anchorEnd]

StoreTable(rt) ==
    /\ compiled' = rt.compiled
    /\ lookup' = rt.lookup
    /\ maplets' = rt.maplets
    /\ nextGroupID' = rt.nextGroupID
    /\ needsRecompile' = rt.needsRecompile
    /\ anchorStart' = rt.anchorStart
    /\ anchorEnd' = rt.anchorEnd

\* A call made while no lookup runs beside it.
Store(rt) ==
    /\ StoreTable(rt)
    /\ UNCHANGED <<threads, written, cacheWrites, arrays, builders, sub>>

\* What the last call returned: op names the call, arg its pattern or input.
Ret(op, arg, value, matches, err, found) ==
    [op |-> op, arg |-> arg, value |-> value, matches |-> matches, err |-> err,
     found |-> found, panicked |-> err = Panic]

Init ==
    /\ \E s \in BOOLEAN, e \in BOOLEAN :
          LET rt == NewRegexpTable(s, e)
          IN  /\ compiled = rt.compiled
              /\ lookup = rt.lookup
              /\ maplets = rt.maplets
              /\ nextGroupID = rt.nextGroupID
              /\ needsRecompile = rt.needsRecompile
              /\ anchorStart = rt.anchorStart
              /\ anchorEnd = rt.anchorEnd
    /\ ret = Ret("NewRegexpTable", <<>>, Zero, NilMatches, NoErr, FALSE)
    /\ NoThreadRuns

DoAddPattern ==
    \E p \in Patterns :
        /\ Len(maplets) < MaxEntries
        /\ LET r == AddPattern(RT, p, NextValue(RT))
           IN  /\ Store(r.rt)
               /\ ret' = Ret("AddPattern", p, NextValue(RT), NilMatches, r.err, FALSE)

DoAddAndCheckPattern ==
    \E p \in Patterns :
        /\ Len(maplets) < MaxEntries
        /\ LET r == AddAndCheckPattern(RT, p, NextValue(RT))
           IN  /\ Store(r.rt)
               /\ ret' = Ret("AddAndCheckPattern", p, NextValue(RT), NilMatches, r.err,
                             FALSE)

DoRecompile ==
    LET r == Recompile(RT)
    IN  /\ Store(r.rt)
        /\ ret' = Ret("Recompile", <<>>, Zero, NilMatches, r.err, FALSE)

DoLookup ==
    \E input \in Inputs :
        LET r == Lookup(RT, input)
        IN  /\ Store(r.rt)
            /\ ret' = Ret("Lookup", input, r.value, r.matches, r.err, FALSE)

\* TryLookup and LookupOrElse return no error: err records only a panic
\* unwinding through them.
DoTryLookup ==
    \E input \in Inputs :
        LET r == TryLookup(RT, input)
        IN  /\ Store(r.rt)
            /\ ret' = Ret("TryLookup", input, r.value, r.matches,
                          IF r.panicked THEN Panic ELSE NoErr, r.found)

DoLookupOrElse ==
    \E input \in Inputs, d \in Defaults :
        LET r == LookupOrElse(RT, input, d)
        IN  /\ Store(r.rt)
            /\ ret' = Ret("LookupOrElse", input, r.value, r.matches,
                          IF r.panicked THEN Panic ELSE NoErr, FALSE)

\* The operations that register, compile and look up.
Next ==
    \/ DoAddPattern
    \/ DoAddAndCheckPattern
    \/ DoRecompile
    \/ DoLookup

Spec == Init /\ [][Next]_vars

\* The same, with the two convenience lookups.
NextWithWrappers ==
    \/ DoAddPattern
    \/ DoAddAndCheckPattern
    \/ DoRecompile
    \/ DoLookup
    \/ DoTryLookup
    \/ DoLookupOrElse

SpecWrappers == Init /\ [][NextWithWrappers]_vars

(***************************************************************************)
(* The anchoring matrix: a table of one literal pattern, looked up with    *)
(* every short string over two characters.                                 *)
(***************************************************************************)
\* The longest input of the anchoring matrix.
MaxInputLen == 3

Chars == {"a", "b"}

WideInputs == UNION {[1..n -> Chars] : n \in 0..MaxInputLen}

\* ab
PatLitAB == <<Lit("a"), Lit("b")>>

\* The empty pattern, b and ab: patterns of literal characters only.
LiteralPatterns == {<<>>, PatLit, PatLitAB}

DoAddLiteral ==
    \E p \in LiteralPatterns :
        /\ Len(maplets) < 1
        /\ LET r == AddPattern(RT, p, NextValue(RT))
           IN  /\ Store(r.rt)
               /\ ret' = Ret("AddPattern", p, NextValue(RT), NilMatches, r.err, FALSE)

DoLookupWide ==
    \E input \in WideInputs :
        LET r == Lookup(RT, input)
        IN  /\ Store(r.rt)
            /\ ret' = Ret("Lookup", input, r.value, r.matches, r.err, FALSE)

NextAnchoring ==
    \/ DoAddLiteral
    \/ DoRecompile
    \/ DoLookupWide

SpecAnchoring == Init /\ [][NextAnchoring]_vars

(***************************************************************************)
(* The table with removal.                                                 *)
(***************************************************************************)
\* The most registrations a table with removal sees in its life.
MaxAdds == 3

PatternIDs == 1..MaxAdds

DoAddPatternForRemoval ==
    \E p \in {PatLit, PatStar, PatGroups, PatBad} :
        /\ Len(maplets) < MaxEntries
        /\ nextGroupID <= MaxAdds
        /\ LET r == AddPattern(RT, p, nextGroupID)
           IN  /\ Store(r.rt)
               /\ ret' = Ret("AddPattern", p, nextGroupID, NilMatches, r.err, FALSE)

DoRemovePattern ==
    \E id \in PatternIDs :
        LET r == RemovePattern(RT, id)
        IN  /\ Store(r.rt)
            /\ ret' = Ret("RemovePattern", Itoa(id), Zero, NilMatches, r.err, FALSE)

DoRemovePatternThenRecompile ==
    \E id \in PatternIDs :
        LET r == RemovePatternThenRecompile(RT, id)
        IN  /\ Store(r.rt)
            /\ ret' = Ret("RemovePatternThenRecompile", Itoa(id), Zero, NilMatches,
                          r.err, FALSE)

NextRemoval ==
    \/ DoAddPatternForRemoval
    \/ DoRemovePattern
    \/ DoRemovePatternThenRecompile
    \/ DoRecompile
    \/ DoLookup

SpecRemoval == Init /\ [][NextRemoval]_vars

(***************************************************************************)
(* Lookups side by side on a table that has been compiled: the table is    *)
(* built and compiled first, and then read by NumThreads callers, each     *)
(* running one Lookup after another, their steps interleaved.  Recompile   *)
(* is not safe beside a lookup and runs only while none is under way.      *)
(***************************************************************************)
ConcurrentPatterns == {PatLit, PatStar}

ConcurrentTables == UNION {[1..n -> ConcurrentPatterns] : n \in 0..MaxEntries}

ConcurrentInputs == {<<>>, <<"b">>, <<"c", "b">>}

\* The table after AddPattern of each of patterns, from the i-th on.
RECURSIVE addAll(_, _, _)
addAll(rt, patterns, i) ==
    IF i > Len(patterns) THEN rt
    ELSE addAll(AddPattern(rt, patterns[i], NextValue(rt)).rt, patterns, i + 1)

InitConcurrent ==
    /\ \E s \in BOOLEAN, e \in BOOLEAN, patterns \in ConcurrentTables :
          LET rt == Recompile(addAll(NewRegexpTable(s, e), patterns, 1)).rt
          IN  /\ compiled = rt.compiled
              /\ lookup = rt.lookup
              /\ maplets = rt.maplets
              /\ nextGroupID = rt.nextGroupID
              /\ needsRecompile = rt.needsRecompile
              /\ anchorStart = rt.anchorStart
              /\ anchorEnd = rt.anchorEnd
    /\ ret = Ret("Recompile", <<>>, Zero, NilMatches, NoErr, FALSE)
    /\ NoThreadRuns

\* Thread t returns r from its Lookup.
ThreadReturned(t, r) ==
    [threads EXCEPT ![t].pc = "done", ![t].value = r.value,
                    ![t].matches = r.matches, ![t].err = r.err]

\* Thread t has come to the end of its first loop with outcome o.
Begun(t, input, o) ==
    /\ StoreTable(o.r.rt)
    /\ threads' = IF o.final
                  THEN [ThreadReturned(t, o.r) EXCEPT ![t].input = input]
                  ELSE [threads EXCEPT ![t].pc = "fallback", ![t].input = input,
                                       ![t].k = 1]

LookupBegin(t) ==
    /\ threads[t].pc = "idle"
    /\ \E input \in ConcurrentInputs :
          Begun(t, input, lookupToFirstLoop(RT, input))
    /\ written' = written \cup ensureCompiledWrites(RT)
    /\ UNCHANGED <<ret, cacheWrites, arrays, builders, sub>>

\* Thread t has tested the pattern of entry k with outcome o.
Tested(t, o) ==
    threads' = IF o.final
               THEN ThreadReturned(t, o.r)
               ELSE [threads EXCEPT ![t].pc = "fallback", ![t].k = threads[t].k + 1]

\* Thread t has compiled the pattern of entry k as c.
CompiledByThread(t, c) ==
    threads' = IF c.err # NoEngineErr
               THEN [threads EXCEPT ![t].pc = "fallback", ![t].k = threads[t].k + 1]
               ELSE [threads EXCEPT ![t].pc = "store", ![t].re = c.re]

\* The head of the second loop: the read of the entry's cache, and what
\* follows it without a write.
FallbackRead(t) ==
    /\ threads[t].pc = "fallback"
    /\ IF threads[t].k > Len(maplets)
       THEN threads' = ThreadReturned(t, LookupResult(RT, Zero, NilMatches, ErrInternal))
       ELSE IF ~maplets[threads[t].k].compiledPattern.nil
       THEN Tested(t, individualTested(RT, threads[t].k,
                         FindStringSubmatch(maplets[threads[t].k].compiledPattern,
                                            threads[t].input)))
       ELSE CompiledByThread(t, Compile(anchorPattern(RT, maplets[threads[t].k].Pattern)))
    /\ UNCHANGED <<compiled, lookup, maplets, nextGroupID, needsRecompile,
                   anchorStart, anchorEnd, ret, written, cacheWrites,
                   arrays, builders, sub>>

\* The same read while another thread is about to assign the cache from nil:
\* the read races with the assignment and may see half of it.
FallbackTornRead(t) ==
    /\ threads[t].pc = "fallback"
    /\ threads[t].k <= Len(maplets)
    /\ maplets[threads[t].k].compiledPattern.nil
    /\ \E u \in Threads \ {t} :
          threads[u].pc = "store" /\ threads[u].k = threads[t].k
    /\ threads' = ThreadReturned(t, LookupResult(RT, Zero, NilMatches,
                                                 PanicNilDereference))
    /\ UNCHANGED <<compiled, lookup, maplets, nextGroupID, needsRecompile,
                   anchorStart, anchorEnd, ret, written, cacheWrites,
                   arrays, builders, sub>>

\* valueAndPattern.compiledPattern = compiledRegexp, and the test that follows.
FallbackStore(t) ==
    /\ threads[t].pc = "store"
    /\ maplets' = [maplets EXCEPT ![threads[t].k].compiledPattern = threads[t].re]
    /\ cacheWrites' = [cacheWrites EXCEPT ![threads[t].k] = @ + 1]
    /\ Tested(t, individualTested(RT, threads[t].k,
                                  FindStringSubmatch(threads[t].re, threads[t].input)))
    /\ UNCHANGED <<compiled, lookup, nextGroupID, needsRecompile,
                   anchorStart, anchorEnd, ret, written, arrays, builders, sub>>

\* The caller takes the result and is free to look up again.
LookupReturn(t) ==
    /\ threads[t].pc = "done"
    /\ threads' = [threads EXCEPT ![t] = IdleThread]
    /\ UNCHANGED <<compiled, lookup, maplets, nextGroupID, needsRecompile,
                   anchorStart, anchorEnd, ret, written, cacheWrites,
                   arrays, builders, sub>>

RecompileWhenQuiescent ==
    /\ \A t \in Threads : threads[t].pc = "idle"
    /\ DoRecompile

NextConcurrent ==
    \/ \E t \in Threads :
          \/ LookupBegin(t)
          \/ FallbackRead(t)
          \/ FallbackTornRead(t)
          \/ FallbackStore(t)
          \/ LookupReturn(t)
    \/ RecompileWhenQuiescent

SpecConcurrent == InitConcurrent /\ [][NextConcurrent]_vars

(***************************************************************************)
(* The builder, its clone and the sub-builder.                             *)
(***************************************************************************)
\* The most patterns a builder is given.
MaxPatterns == 2

\* The most sub-patterns of one alternation.
MaxSubPatterns == 2

BuilderPatterns == {PatLit}

\* The sub-patterns given to a sub-builder, one at a time.
SubPatterns == {PatStar}

\* The sub-patterns given to AddSubPatterns: none, a*, and b with a*.
SubPatternLists ==
    {patterns \in UNION {[1..n -> {PatLit, PatStar}] : n \in 0..MaxSubPatterns} :
        \A i \in 1..Len(patterns) : (patterns[i] = PatStar) <=> (i = Len(patterns))}

\* The k-th pattern given to a builder is bound to the value k.
NextBuilderValue(w, b) == w.builders[b].patterns.len + 1

\* What the last call on a builder returned: builder names the receiver.
BuilderRet(op, b, arg, value, err) ==
    [op |-> op, builder |-> b, arg |-> arg, value |-> value, matches |-> NilMatches,
     err |-> err, found |-> FALSE, panicked |-> err = Panic]

TableUnchanged ==
    UNCHANGED <<compiled, lookup, maplets, nextGroupID, needsRecompile,
                anchorStart, anchorEnd, threads, written, cacheWrites>>

InitBuilder ==
    /\ LET rt == NewRegexpTable(FALSE, FALSE)
       IN  /\ compiled = rt.compiled
           /\ lookup = rt.lookup
           /\ maplets = rt.maplets
           /\ nextGroupID = rt.nextGroupID
           /\ needsRecompile = rt.needsRecompile
           /\ anchorStart = rt.anchorStart
           /\ anchorEnd = rt.anchorEnd
    /\ ret = BuilderRet("NewRegexpTableBuilder", 1, <<>>, Zero, NoErr)
    /\ NoThreadRuns

DoBuilderAddPattern ==
    \E b \in BuilderIDs, p \in BuilderPatterns :
        /\ builders[b].exists
        /\ builders[b].patterns.len < MaxPatterns
        /\ StoreWorld(BuilderAddPattern(World, b, p, NextBuilderValue(World, b)))
        /\ ret' = BuilderRet("Builder.AddPattern", b, p, NextBuilderValue(World, b), NoErr)
        /\ TableUnchanged

DoAddSubPatterns ==
    \E b \in BuilderIDs, patterns \in SubPatternLists :
        /\ builders[b].exists
        /\ builders[b].patterns.len < MaxPatterns
        /\ StoreWorld(AddSubPatterns(World, b, patterns, NextBuilderValue(World, b)))
        /\ ret' = BuilderRet("AddSubPatterns", b, patterns, NextBuilderValue(World, b),
                             NoErr)
        /\ TableUnchanged

DoBeginAddSubPatterns ==
    \E b \in BuilderIDs :
        /\ builders[b].exists
        /\ StoreWorld(BeginAddSubPatterns(World, b))
        /\ ret' = BuilderRet("BeginAddSubPatterns", b, <<>>, Zero, NoErr)
        /\ TableUnchanged

DoAddSubPattern ==
    \E p \in SubPatterns :
        /\ sub.exists
        /\ Len(sub.subPatterns) < MaxSubPatterns
        /\ StoreWorld(AddSubPattern(World, p))
        /\ ret' = BuilderRet("AddSubPattern", sub.parent, p, Zero, NoErr)
        /\ TableUnchanged

DoEndAddSubPatterns ==
    /\ sub.exists
    /\ builders[sub.parent].patterns.len < MaxPatterns
    /\ StoreWorld(EndAddSubPatterns(World, NextBuilderValue(World, sub.parent)))
    /\ ret' = BuilderRet("EndAddSubPatterns", sub.parent, sub.subPatterns,
                         NextBuilderValue(World, sub.parent), NoErr)
    /\ TableUnchanged

DoClear ==
    \E b \in BuilderIDs :
        /\ builders[b].exists
        /\ StoreWorld(Clear(World, b))
        /\ ret' = BuilderRet("Clear", b, <<>>, Zero, NoErr)
        /\ TableUnchanged

\* The builder is cloned once.
DoClone ==
    /\ builders[1].exists /\ ~builders[2].exists
    /\ StoreWorld(Clone(World, 1, 2))
    /\ ret' = BuilderRet("Clone", 1, <<>>, Zero, NoErr)
    /\ TableUnchanged

NextBuilder ==
    \/ DoBuilderAddPattern
    \/ DoAddSubPatterns
    \/ DoBeginAddSubPatterns
    \/ DoAddSubPattern
    \/ DoEndAddSubPatterns
    \/ DoClear
    \/ DoClone

SpecBuilder == InitBuilder /\ [][NextBuilder]_vars

(***************************************************************************)
(* The builder and the tables it builds: the table of the state machine is *)
(* the table that Build or MustBuild returned last.                        *)
(***************************************************************************)
BuildPatterns == {PatLit, PatStar, PatBad, PatReserved}

\* What Build or MustBuild did: nilTable tells that no table was returned,
\* message is what MustBuild panicked with.
BuildRet(op, s, e, nilTable, err, panicked, message) ==
    [op |-> op, builder |-> 1, arg |-> <<s, e>>, value |-> Zero, matches |-> NilMatches,
     err |-> err, found |-> FALSE, panicked |-> panicked, nilTable |-> nilTable,
     message |-> message]

DoAddPatternToBuild ==
    \E p \in BuildPatterns :
        /\ builders[1].patterns.len < MaxPatterns
        /\ StoreWorld(BuilderAddPattern(World, 1, p, NextBuilderValue(World, 1)))
        /\ ret' = BuilderRet("Builder.AddPattern", 1, p, NextBuilderValue(World, 1), NoErr)
        /\ TableUnchanged

\* Build has returned r.
Built(s, e, r) ==
    /\ IF r.nil
       THEN UNCHANGED <<compiled, lookup, maplets, nextGroupID, needsRecompile,
                        anchorStart, anchorEnd>>
       ELSE StoreTable(r.table)
    /\ ret' = BuildRet("Build", s, e, r.nil, r.err, r.err = Panic, <<>>)

DoBuild ==
    /\ \E s \in BOOLEAN, e \in BOOLEAN : Built(s, e, Build(World, 1, s, e))
    /\ UNCHANGED <<threads, written, cacheWrites, arrays, builders, sub>>

\* MustBuild has returned or panicked as r.
MustBuilt(s, e, r) ==
    /\ IF r.nil
       THEN UNCHANGED <<compiled, lookup, maplets, nextGroupID, needsRecompile,
                        anchorStart, anchorEnd>>
       ELSE StoreTable(r.table)
    /\ ret' = BuildRet("MustBuild", s, e, r.nil, NoErr, r.panicked, r.message)

DoMustBuild ==
    /\ \E s \in BOOLEAN, e \in BOOLEAN : MustBuilt(s, e, MustBuild(World, 1, s, e))
    /\ UNCHANGED <<threads, written, cacheWrites, arrays, builders, sub>>

NextBuild ==
    \/ DoAddPatternToBuild
    \/ DoClear
    \/ DoBuild
    \/ DoMustBuild

SpecBuild == InitBuilder /\ [][NextBuild]_vars

(***************************************************************************)
(* A table over the pluggable engine whose matches are short.              *)
(***************************************************************************)
\* The most elements that the engine returns of a match.
MaxMatchLen == 3

\* Lookup after the call returned r.
LookupReturned(input, r) ==
    /\ Store(r.rt)
    /\ ret' = Ret("Lookup", input, r.value, r.matches, r.err, FALSE)

DoLookupWithShortEngine ==
    \E input \in Inputs, n \in 1..MaxMatchLen :
        LookupReturned(input, LookupWithShortEngine(RT, input, n))

NextShortEngine ==
    \/ DoAddPattern
    \/ DoRecompile
    \/ DoLookupWithShortEngine

SpecShortEngine == Init /\ [][NextShortEngine]_vars

(***************************************************************************)
(* Vocabulary of the properties.                                           *)
(***************************************************************************)
MinOf(S) == CHOOSE x \in S : \A y \in S : x <= y

\* The positions of a group-name list that carry the synthetic name of an entry.
SyntheticPositions(rt, names) ==
    {i \in 1..Len(names) : \E k \in 1..Len(rt.maplets) : names[i] = rt.maplets[k].GroupName}

\* The entry whose synthetic name stands at position i of names.
EntryAt(rt, names, i) ==
    CHOOSE k \in 1..Len(rt.maplets) : names[i] = rt.maplets[k].GroupName

\* The number of capture groups a pattern's own text opens.
OwnGroups(pattern) ==
    Cardinality({i \in 1..Len(pattern) : pattern[i].k \in {"(", "(?P<"}})

\* A pattern is valid when the engine compiles it on its own.
ValidPattern(pattern) == Compile(pattern).err = NoEngineErr

\* The names of the groups a pattern's own text declares.
OwnNames(pattern) == {pattern[i].n : i \in {j \in 1..Len(pattern) : pattern[j].k = "(?P<"}}

\* Entry k's own pattern, anchored like the table, compiles and matches input.
IndividuallyMatches(rt, k, input) ==
    LET c == Compile(anchorPattern(rt, rt.maplets[k].Pattern))
    IN  c.err = NoEngineErr /\ ~FindStringSubmatch(c.re, input).nil

\* The combined matcher of the table's current entries.
CombinedMatcher(rt) == Compile(anchorPattern(rt, unionPattern(rt)))

C2_SoleMatchingEntryWins ==
    \A input \in Inputs :
        LET matching == {k \in 1..Len(maplets) : IndividuallyMatches(RT, k, input)}
            r == Lookup(RT, input)
        IN  (/\ Len(maplets) >= 1
             /\ \A k \in 1..Len(maplets) : ValidPattern(maplets[k].Pattern)
             /\ \A j, k \in 1..Len(maplets) : j # k => maplets[j].Value # maplets[k].Value
             /\ Cardinality(matching) = 1)
            => \A k \in matching : r.err = NoErr /\ r.value = maplets[k].Value

\* The lookup slice that belongs to a group-name list: at each position the
\* entry whose synthetic name stands there, 0 elsewhere.
LookupFor(rt, names) ==
    [i \in 1..Len(names) |->
        IF i \in SyntheticPositions(rt, names) THEN EntryAt(rt, names, i) ELSE 0]

\* The matcher and the lookup slice are those of the current entries.
MatcherIsCurrent ==
    /\ compiled = CombinedMatcher(RT).re
    /\ lookup = LookupFor(RT, SubexpNames(compiled))

(***************************************************************************)
(* C3.  Whenever the compiled matcher is present and needsRecompile is     *)
(* false, the matcher and the lookup slice are the ones built from the     *)
(* current entry sequence; every AddPattern sets needsRecompile, and a     *)
(* Lookup that ran the matcher ran the matcher of the current entries.     *)
(***************************************************************************)
C3_MatcherNeverStale ==
    /\ (~compiled.nil /\ ~needsRecompile) => MatcherIsCurrent
    /\ ret.op = "AddPattern" => needsRecompile
    /\ (ret.op = "Lookup" /\ ret.err \in {NoErr, ErrNoMatch, ErrInternal})
          => (~compiled.nil /\ ~needsRecompile /\ MatcherIsCurrent)

\* A lookup answered after a second pattern was added to a compiled table.
C3_Witness ==
    /\ ret.op = "Lookup" /\ ret.err = NoErr
    /\ Len(maplets) = 2 /\ ret.value = maplets[2].Value
    /\ ~compiled.nil /\ ~needsRecompile

(***************************************************************************)
(* C4.  AddPattern of a syntactically invalid pattern returns no error and *)
(* registers the entry, the failure being reported by the next forced      *)
(* compilation; AddAndCheckPattern of the same pattern on the same table   *)
(* returns an error at once, the same one the deferred path reports.       *)
(***************************************************************************)
C4_LazyAndImmediateAgree ==
    \A p \in Patterns :
        (Len(maplets) < MaxEntries /\ ~ValidPattern(p)) =>
            LET lazy == AddPattern(RT, p, NextValue(RT))
                immediate == AddAndCheckPattern(RT, p, NextValue(RT))
                forced == Recompile(lazy.rt)
            IN  /\ lazy.err = NoErr
                /\ Len(lazy.rt.maplets) = Len(maplets) + 1
                /\ lazy.rt.maplets[Len(maplets) + 1].Pattern = p
                /\ immediate.err # NoErr
                /\ immediate.err = forced.err
                /\ \A input \in Inputs : Lookup(lazy.rt, input).err = immediate.err

\* The calls that compile the table when it is not compiled.
Compiling == {"Recompile", "AddAndCheckPattern", "Lookup", "TryLookup", "LookupOrElse"}

\* The last call left a table of entries without a matcher: its compilation
\* failed.
CompilationFailed == Len(maplets) > 0 /\ compiled.nil /\ ret.op \in Compiling

(***************************************************************************)
(* C5.  A compile-time error is always returned to the caller of the       *)
(* operation that triggered the compilation: Recompile, AddAndCheckPattern *)
(* or a lookup in any of the three variants Lookup, TryLookup and          *)
(* LookupOrElse.  A call that leaves a table of entries without a matcher  *)
(* is one whose compilation failed.                                        *)
(***************************************************************************)
C5_CompileErrorAlwaysReturned ==
    CompilationFailed => IsCompileErr(ret.err)

\* C5 as the code has it: Recompile, AddAndCheckPattern and Lookup return the
\* compile-time error, and it is the error of compiling the current entries;
\* TryLookup returns only found = false with the zero value and nil
\* submatches, LookupOrElse only the default with an empty submatch list, and
\* after either the table is still to be compiled, so that the next Lookup
\* or Recompile returns the error.
C5_CompileErrorReturnedOrAbsorbed ==
    CompilationFailed =>
        /\ IsCompileErr(Recompile(RT).err)
        /\ needsRecompile
        /\ \A input \in Inputs : Lookup(RT, input).err = Recompile(RT).err
        /\ ret.op \in {"Recompile", "AddAndCheckPattern", "Lookup"}
              => ret.err = Recompile(RT).err
        /\ ret.op = "TryLookup"
              => /\ ret.err = NoErr /\ ~ret.found
                 /\ ret.value = Zero /\ ret.matches = NilMatches
        /\ ret.op = "LookupOrElse"
              => /\ ret.err = NoErr
                 /\ ret.value \in Defaults
                 /\ ret.matches = [nil |-> FALSE, v |-> <<>>]

\* A TryLookup on a table whose entries do not compile: found is false and
\* no error is returned.
C5_Witness ==
    /\ CompilationFailed
    /\ ret.op = "TryLookup" /\ ~ret.found /\ ret.err = NoErr
    /\ IsCompileErr(Recompile(RT).err)

(***************************************************************************)
(* C6.  Lookup on a table of zero entries fails with "no patterns          *)
(* configured": it does not panic and does not report "no pattern          *)
(* matched".  Lookup on a table of at least one entry whose compilation    *)
(* succeeds and whose combined matcher finds no match fails with "no       *)
(* pattern matched", not with "no patterns configured".  The two errors    *)
(* differ, and each is returned in no other case.                          *)
(***************************************************************************)
C6_NoPatternsVersusNoMatch ==
    \A input \in Inputs :
        LET e == ensureCompiled(RT)
            r == Lookup(RT, input)
            ranAndMissed == /\ Len(maplets) >= 1
                            /\ e.err = NoErr
                            /\ FindStringSubmatch(e.rt.compiled, input).nil
        IN  /\ Len(maplets) = 0 <=> r.err.kind = "no patterns configured"
            /\ ranAndMissed <=> r.err.kind = "no pattern matched"
            /\ r.err.kind \in {"no patterns configured", "no pattern matched"}
                  => r.value = Zero /\ r.matches = NilMatches /\ r.err.items = <<>>
            /\ ErrNoPatterns # ErrNoMatch

\* Both errors have been returned: "no patterns configured" by the empty
\* table, "no pattern matched" by a table of two entries.
C6_Witness ==
    /\ ret.op = "Lookup" /\ ret.err = ErrNoMatch /\ Len(maplets) = 2
    /\ ~compiled.nil
    /\ Lookup(NewRegexpTable(anchorStart, anchorEnd), ret.arg).err = ErrNoPatterns

\* The combined matcher of a compiled table matches input with no text in any
\* synthetic group.
AllSyntheticGroupsEmpty(rt, input) ==
    LET m == FindStringSubmatch(rt.compiled, input)
    IN  /\ ~rt.compiled.nil
        /\ ~m.nil
        /\ \A i \in SyntheticPositions(rt, SubexpNames(rt.compiled)) : m.v[i] = <<>>

(***************************************************************************)
(* C7.  When the combined matcher reports a match in which the text of     *)
(* every synthetic group is empty, Lookup succeeds and returns the value   *)
(* of the first entry, in registration order, whose own pattern, anchored  *)
(* like the table, matches the input; it does not return the internal      *)
(* error, and the same lookup repeated returns the same winner.            *)
(***************************************************************************)
C7_EmptyMatchResolvedInOrder ==
    \A input \in Inputs :
        LET e == ensureCompiled(RT)
            r == Lookup(RT, input)
            again == Lookup(r.rt, input)
            matching == {k \in 1..Len(maplets) : IndividuallyMatches(RT, k, input)}
        IN  (e.err = NoErr /\ AllSyntheticGroupsEmpty(e.rt, input)) =>
                /\ r.err = NoErr
                /\ r.err # ErrInternal
                /\ matching # {}
                /\ r.value = maplets[MinOf(matching)].Value
                /\ again.err = NoErr
                /\ again.value = r.value

\* The entries whose synthetic group took part in the combined match of input.
Participants(rt, input) ==
    LET names == SubexpNames(rt.compiled)
        f == FindFrom(rt.compiled, input, 1)
    IN  IF rt.compiled.nil \/ f.nil THEN {}
        ELSE {EntryAt(rt, names, i) :
                 i \in {j \in SyntheticPositions(rt, names) : f.caps[j] # Unset}}

(***************************************************************************)
(* C8.  Whenever Lookup returns a value with a nil error, the value is     *)
(* that of the entry whose synthetic group took part in the combined       *)
(* matcher's match of the input, under each of the four anchorings and     *)
(* also when the winner comes from the fallback over the entries' own      *)
(* patterns.                                                               *)
(***************************************************************************)
C8_WinnerTookPart ==
    \A input \in Inputs :
        LET r == Lookup(RT, input)
        IN  r.err = NoErr =>
                \E k \in Participants(r.rt, input) : r.value = maplets[k].Value

\* The k-th entry carries the k-th synthetic name and the pattern wrapped in it.
NamesAssignedInOrder ==
    /\ \A k \in 1..Len(maplets) :
          /\ maplets[k].GroupName = <<"__REGEXPTABLE_">> \o Itoa(k) \o <<"__">>
          /\ maplets[k].namedPattern =
                FormatNamedGroup(maplets[k].GroupName, maplets[k].Pattern)
          /\ maplets[k].namedPattern =
                <<[k |-> "(?P<", n |-> maplets[k].GroupName]>>
                    \o maplets[k].Pattern \o <<[k |-> ")", n |-> <<>>]>>
    /\ \A j, k \in 1..Len(maplets) :
          j # k => maplets[j].GroupName # maplets[k].GroupName
    /\ nextGroupID = Len(maplets) + 1

(***************************************************************************)
(* C9.  In every reachable state the synthetic group names of the entries  *)
(* are pairwise distinct and none is reused: the k-th AddPattern on the    *)
(* table, counting the calls whose later compilation fails, is given       *)
(* exactly __REGEXPTABLE_k__, nextGroupID only ever increases, and the     *)
(* entry's named pattern is FormatNamedGroup(that name, original pattern). *)
(***************************************************************************)
C9_SyntheticNamesNeverReused ==
    /\ []NamesAssignedInOrder
    /\ [][/\ nextGroupID' >= nextGroupID
          /\ Len(maplets') > Len(maplets) => nextGroupID' > nextGroupID
          /\ \A k \in 1..Len(maplets) :
                /\ k <= Len(maplets')
                /\ maplets'[k].GroupName = maplets[k].GroupName]_vars

\* Two entries, the first of which does not compile, named 1 and 2.
C9_Witness ==
    /\ Len(maplets) = 2
    /\ ~ValidPattern(maplets[1].Pattern)
    /\ IsCompileErr(Recompile(RT).err)
    /\ maplets[2].GroupName = <<"__REGEXPTABLE_", "2", "__">>
    /\ nextGroupID = 3

\* The positions of a lookup slice that map to an entry, in increasing order.
RECURSIVE EntryPositions(_, _)
EntryPositions(lk, i) ==
    IF i > Len(lk) THEN <<>>
    ELSE (IF lk[i] # 0 THEN <<i>> ELSE <<>>) \o EntryPositions(lk, i + 1)

\* The lookup slice of rt is congruent with the group names of its matcher.
Congruent(rt) ==
    LET names == SubexpNames(rt.compiled)
        at == EntryPositions(rt.lookup, 1)
    IN  /\ Len(rt.lookup) = Len(names)
        /\ Len(at) = Len(rt.maplets)
        /\ \A k \in 1..Len(at) :
              /\ rt.lookup[at[k]] = k
              /\ names[at[k]] = rt.maplets[k].GroupName
        /\ \A i \in 1..Len(names) :
              rt.lookup[i] = 0 => ~HasReservedPrefix(names[i])

RecompilesCombined(rt) ==
    (rt.needsRecompile \/ rt.compiled.nil) /\ Len(rt.maplets) > 0

(***************************************************************************)
(* C11.  On a table that is compiled and not mutated in between, Lookup of *)
(* the same input returns the same value, submatches and error every time, *)
(* the per-entry cache the first Lookup may have filled included, and no   *)
(* Lookup compiles the combined pattern again: the matcher and the lookup  *)
(* slice stay as they are and the table stays clean.                       *)
(***************************************************************************)
C11_RepeatedLookupIsIdempotent ==
    ~needsRecompile =>
        \A input \in Inputs :
            LET r1 == Lookup(RT, input)
                r2 == Lookup(r1.rt, input)
                r3 == Lookup(r2.rt, input)
            IN  /\ r2.value = r1.value /\ r2.matches = r1.matches /\ r2.err = r1.err
                /\ r3.value = r1.value /\ r3.matches = r1.matches /\ r3.err = r1.err
                /\ ~RecompilesCombined(RT) /\ ~RecompilesCombined(r1.rt)
                /\ ~RecompilesCombined(r2.rt)
                /\ r2.rt.compiled = compiled /\ r2.rt.lookup = lookup
                /\ ~r2.rt.needsRecompile

\* A Lookup that went through the second loop and filled a cache has returned,
\* and the same Lookup again returns the same.
C11_Witness ==
    /\ ret.op = "Lookup" /\ ret.err = NoErr
    /\ ~needsRecompile /\ ~compiled.nil
    /\ \E k \in 1..Len(maplets) : ~maplets[k].compiledPattern.nil
    /\ Lookup(RT, ret.arg).value = ret.value
    /\ Lookup(RT, ret.arg).matches = ret.matches

\* The text a pattern of literal characters spells.
Spelling(pattern) == [i \in 1..Len(pattern) |-> pattern[i].n[1]]

IsLiteral(pattern) == \A i \in 1..Len(pattern) : pattern[i].k = "lit"

\* p occurs in s from position i on.
OccursAt(p, s, i) ==
    /\ i + Len(p) - 1 <= Len(s)
    /\ \A j \in 1..Len(p) : s[i + j - 1] = p[j]

HasPrefix(s, p) == OccursAt(p, s, 1)

HasSuffix(s, p) == Len(p) <= Len(s) /\ OccursAt(p, s, Len(s) - Len(p) + 1)

Contains(s, p) == \E i \in 1..(Len(s) + 1) : OccursAt(p, s, i)

\* What the anchoring options of rt ask of an input, for the literal text p.
Anchored(rt, s, p) ==
    IF rt.anchorStart
    THEN (IF rt.anchorEnd THEN s = p ELSE HasPrefix(s, p))
    ELSE (IF rt.anchorEnd THEN HasSuffix(s, p) ELSE Contains(s, p))

(***************************************************************************)
(* C12.  For a table holding one literal pattern p, Lookup succeeds        *)
(* exactly on the inputs that have p as a prefix when the table is         *)
(* anchored at the start only, that contain p when it is not anchored,     *)
(* that equal p when it is anchored at both ends, and that have p as a     *)
(* suffix when it is anchored at the end only; and whenever it succeeds    *)
(* the value is the one bound to p.                                        *)
(***************************************************************************)
C12_AnchoringMatrix ==
    /\ (Len(maplets) = 1 /\ IsLiteral(maplets[1].Pattern)) =>
           \A input \in WideInputs :
               LET r == Lookup(RT, input)
               IN  /\ (r.err = NoErr) <=> Anchored(RT, input, Spelling(maplets[1].Pattern))
                   /\ r.err = NoErr => r.value = maplets[1].Value
    /\ (Len(maplets) = 1 /\ IsLiteral(maplets[1].Pattern) /\ ret.op = "Lookup") =>
           /\ (ret.err = NoErr) <=> Anchored(RT, ret.arg, Spelling(maplets[1].Pattern))
           /\ ret.err = NoErr => ret.value = maplets[1].Value

\* A table anchored at the end only has found ab at the end of a longer input.
C12_Witness ==
    /\ ret.op = "Lookup" /\ ret.err = NoErr
    /\ ~anchorStart /\ anchorEnd
    /\ Len(maplets) = 1 /\ maplets[1].Pattern = PatLitAB
    /\ ret.arg = <<"b", "a", "b">>
    /\ ret.value = maplets[1].Value

(***************************************************************************)
(* C13.  TryLookup and LookupOrElse are wrappers of Lookup on the same     *)
(* table and input: they leave the table as Lookup leaves it; TryLookup    *)
(* returns Lookup's value and submatches, and found exactly when Lookup's  *)
(* error is nil; LookupOrElse returns Lookup's value and submatches when   *)
(* Lookup's error is nil, and otherwise the caller's default with a        *)
(* submatch sequence of length 0.  (A Lookup that panics returns nothing,  *)
(* and neither does its wrapper.)                                          *)
(***************************************************************************)
C13_WrappersOfLookup ==
    [][ /\ ret'.op = "TryLookup" =>
             LET r == Lookup(RT, ret'.arg)
             IN  /\ RT' = r.rt
                 /\ ret'.panicked <=> r.err = Panic
                 /\ r.err # Panic =>
                       /\ ret'.value = r.value
                       /\ ret'.matches = r.matches
                       /\ ret'.found <=> r.err = NoErr
        /\ ret'.op = "LookupOrElse" =>
             LET r == Lookup(RT, ret'.arg)
             IN  /\ RT' = r.rt
                 /\ ret'.panicked <=> r.err = Panic
                 /\ r.err = NoErr =>
                       ret'.value = r.value /\ ret'.matches = r.matches
                 /\ (r.err # NoErr /\ r.err # Panic) =>
                       ret'.value \in Defaults /\ Len(ret'.matches.v) = 0
      ]_vars

\* LookupOrElse has returned the caller's default and no submatches.
C13_Witness ==
    /\ ret.op = "LookupOrElse" /\ ~ret.panicked
    /\ ret.value \in Defaults
    /\ Len(ret.matches.v) = 0
    /\ Len(maplets) > 0

Removals == {"RemovePattern", "RemovePatternThenRecompile"}

(***************************************************************************)
(* C14.  Once the only registered pattern of a table has been removed, a   *)
(* removal that marks the table dirty, Lookup of any input fails with "no  *)
(* patterns configured", not with "no pattern matched", whether or not the *)
(* table had been compiled while it held the pattern.                      *)
(***************************************************************************)
C14_LookupAfterRemovingOnlyPattern ==
    /\ (ret.op \in Removals /\ ret.err = NoErr /\ Len(maplets) = 0) =>
           /\ ret.op = "RemovePattern" => needsRecompile
           /\ \A input \in Inputs : Lookup(RT, input).err = ErrNoPatterns
    /\ (ret.op = "Lookup" /\ Len(maplets) = 0) => ret.err = ErrNoPatterns

\* The only pattern of a table with a compiled matcher has been removed: the
\* matcher of the removed pattern is still there, and stale.
C14_Witness ==
    /\ ret.op = "RemovePattern" /\ ret.err = NoErr
    /\ Len(maplets) = 0
    /\ ~compiled.nil
    /\ nextGroupID = 2

\* A step of one of the lookups that run side by side.
LookupStep == threads' # threads

\* Entry k is the same but for its cache.
SameButCache(k) ==
    [maplets'[k] EXCEPT !.compiledPattern = maplets[k].compiledPattern] = maplets[k]

\* The step assigns no field of the table other than the cache of an entry,
\* and that only from the second loop.
WritesOnlyCaches ==
    /\ written' = written
    /\ compiled' = compiled /\ lookup' = lookup
    /\ needsRecompile' = needsRecompile /\ nextGroupID' = nextGroupID
    /\ Len(maplets') = Len(maplets)
    /\ \A k \in 1..Len(maplets) : SameButCache(k)
    /\ maplets' # maplets => \E t \in Threads : threads[t].pc = "store"

\* The same of the tables that hold an entry, which is what the code keeps.
LookupsOnEntriesWriteOnlyCaches ==
    [][(LookupStep /\ Len(maplets) > 0) => WritesOnlyCaches]_vars

(***************************************************************************)
(* C15.  Lookups that run side by side on a table that has been compiled   *)
(* and not mutated since are read-only: no step of any of them assigns the *)
(* compiled matcher, the lookup slice, the entry sequence, needsRecompile  *)
(* or nextGroupID; the only thing a lookup may assign is the               *)
(* compiledPattern cache of an entry, and only in the second loop.         *)
(***************************************************************************)
C15_LookupsWriteOnlyCaches ==
    [][LookupStep => WritesOnlyCaches]_vars

(***************************************************************************)
(* C16.  The compiledPattern cache of an entry is assigned at most once in *)
(* the life of the entry, whatever Lookup and Recompile calls are made and *)
(* however the lookups interleave.                                         *)
(***************************************************************************)
C16_CacheAssignedAtMostOnce ==
    \A k \in 1..MaxEntries : cacheWrites[k] <= 1

\* p1|...|pk, put together from the last pattern backwards.
RECURSIVE JoinedByBar(_)
JoinedByBar(patterns) ==
    IF Len(patterns) = 1 THEN patterns[1]
    ELSE JoinedByBar(SubSeq(patterns, 1, Len(patterns) - 1))
         \o <<Tok("|")>> \o patterns[Len(patterns)]

\* What a builder's pattern list becomes when the sub-patterns are added to
\* entries with value.
WithSubPatterns(entries, patterns, value) ==
    IF Len(patterns) = 0 THEN entries
    ELSE IF Len(patterns) = 1
    THEN Append(entries, [pattern |-> patterns[1], value |-> value])
    ELSE Append(entries,
                [pattern |-> <<Tok("(?:")>> \o JoinedByBar(patterns) \o <<Tok(")")>>,
                 value |-> value])

(***************************************************************************)
(* C18.  AddSubPatterns(patterns, value) leaves the builder's pattern list *)
(* as it is when patterns is empty, appends the one pattern unwrapped when *)
(* there is one, and appends the single entry (?:p1|...|pk) bound to value *)
(* when there are two or more.  BeginAddSubPatterns, AddSubPattern and     *)
(* EndAddSubPatterns(value) append the same single entry (or nothing) to   *)
(* the parent and leave the sub-builder's accumulation empty.              *)
(***************************************************************************)
C18_SubPatternsBecomeOneEntry ==
    [][ /\ ret'.op = "AddSubPatterns" =>
             BuilderEntries(World', ret'.builder)
               = WithSubPatterns(BuilderEntries(World, ret'.builder), ret'.arg, ret'.value)
        /\ ret'.op = "AddSubPattern" =>
             /\ sub'.subPatterns = Append(sub.subPatterns, ret'.arg)
             /\ BuilderEntries(World', sub.parent) = BuilderEntries(World, sub.parent)
        /\ ret'.op = "BeginAddSubPatterns" =>
             /\ sub'.subPatterns = <<>> /\ sub'.parent = ret'.builder
             /\ BuilderEntries(World', ret'.builder) = BuilderEntries(World, ret'.builder)
        /\ ret'.op = "EndAddSubPatterns" =>
             /\ BuilderEntries(World', sub.parent)
                  = WithSubPatterns(BuilderEntries(World, sub.parent), sub.subPatterns,
                                    ret'.value)
             /\ sub'.subPatterns = <<>>
             /\ sub'.parent = sub.parent
      ]_vars

\* The sub-builder has ended an alternation of two sub-patterns: the parent
\* holds (?:b|a*) as one entry and the accumulation is empty.
C18_Witness ==
    /\ ret.op = "EndAddSubPatterns"
    /\ ret.arg = <<PatStar, PatStar>>
    /\ builders[ret.builder].patterns.len = 2
    /\ BuilderEntries(World, ret.builder)[2].pattern
         = <<Tok("(?:"), Lit("a"), Tok("*"), Tok("|"), Lit("a"), Tok("*"), Tok(")")>>
    /\ sub.subPatterns = <<>>

BuilderMutations == {"Builder.AddPattern", "AddSubPatterns", "EndAddSubPatterns", "Clear"}

(***************************************************************************)
(* C19.  Clone yields a builder with the pattern sequence and the engine   *)
(* of the original, and the two share no mutable state: a later            *)
(* AddPattern, AddSubPatterns or Clear on either of them leaves the        *)
(* pattern sequence of the other as it is.                                 *)
(***************************************************************************)
C19_CloneSharesNothing ==
    [][ /\ ret'.op = "Clone" =>
             /\ builders'[2].exists
             /\ BuilderEntries(World', 2) = BuilderEntries(World, 1)
             /\ builders'[2].engine = builders[1].engine
             /\ BuilderEntries(World', 1) = BuilderEntries(World, 1)
        /\ ret'.op \in BuilderMutations =>
             \A c \in BuilderIDs \ {ret'.builder} :
                 BuilderEntries(World', c) = BuilderEntries(World, c)
      ]_vars

\* The original was cleared and given a pattern again after it was cloned:
\* the append wrote into the array the original had before, and the clone
\* still holds what it was cloned with.
C19_Witness ==
    /\ ret.op = "Builder.AddPattern" /\ ret.builder = 1
    /\ builders[2].exists
    /\ builders[1].patterns.len = 1 /\ builders[2].patterns.len = 2
    /\ Cap(arrays, builders[1].patterns) = 2
    /\ BuilderEntries(World, 1)[1] # BuilderEntries(World, 2)[1]

\* The table after AddPattern of each entry, from the i-th on.
RECURSIVE addAllEntries(_, _, _)
addAllEntries(rt, entries, i) ==
    IF i > Len(entries) THEN rt
    ELSE addAllEntries(AddPattern(rt, entries[i].pattern, entries[i].value).rt,
                       entries, i + 1)

\* What Recompile makes of a new table with the builder's patterns, anchored
\* as Build or MustBuild was asked.
CompilationForBuild ==
    Recompile(addAllEntries(NewRegexpTable(ret.arg[1], ret.arg[2]),
                            BuilderEntries(World, 1), 1))

\* The text of err is part of message.
ContainsError(message, err) == \E i \in 1..Len(message) : message[i] = TextOf(err)

(***************************************************************************)
(* C17.  Build returns a nil table and an error whenever a pattern of the  *)
(* builder makes compilation fail, and otherwise a table that is compiled  *)
(* and not dirty; MustBuild returns the same table on success, and on      *)
(* failure panics with a message that contains the compile error.          *)
(***************************************************************************)
C17_BuildReturnsTableOrError ==
    /\ ret.op = "Build" =>
          /\ ~ret.panicked
          /\ CompilationForBuild.err # NoErr =>
                ret.nilTable /\ ret.err # NoErr
          /\ CompilationForBuild.err = NoErr =>
                /\ ~ret.nilTable /\ ret.err = NoErr
                /\ RT = CompilationForBuild.rt
                /\ ~needsRecompile
                /\ ~compiled.nil \/ Len(maplets) = 0
    /\ ret.op = "MustBuild" =>
          /\ CompilationForBuild.err = NoErr =>
                /\ ~ret.panicked /\ ~ret.nilTable
                /\ RT = Build(World, 1, ret.arg[1], ret.arg[2]).table
                /\ ~needsRecompile
          /\ CompilationForBuild.err # NoErr =>
                /\ ret.panicked
                /\ ret.message[1] = Literal("RegexpTableBuilder.MustBuild failed: ")
                /\ ContainsError(ret.message, CompilationForBuild.err)

\* The table holds exactly the entries, in their order, as a new table does:
\* the k-th entry under the k-th synthetic name, and no cache filled.
HoldsExactly(rt, entries) ==
    /\ Len(rt.maplets) = Len(entries)
    /\ rt.nextGroupID = Len(entries) + 1
    /\ \A k \in 1..Len(entries) :
          /\ rt.maplets[k].Pattern = entries[k].pattern
          /\ rt.maplets[k].Value = entries[k].value
          /\ rt.maplets[k].GroupName = SyntheticName(k)
          /\ rt.maplets[k].compiledPattern.nil

Builds == {"Build", "MustBuild"}

(***************************************************************************)
(* C20.  Every Build that returns a table returns a new one that holds     *)
(* exactly the patterns the builder has at the call, in the order they     *)
(* were added; a table that Build returned is not touched by a later       *)
(* AddPattern or Clear on the builder; and Clear leaves the builder with   *)
(* no pattern, so that a Build after it returns a table of zero entries    *)
(* until patterns are added again.                                         *)
(***************************************************************************)
C20_BuildSnapshotsBuilder ==
    /\ []((ret.op \in Builds /\ ~ret.nilTable) =>
              /\ HoldsExactly(RT, BuilderEntries(World, 1))
              /\ anchorStart = ret.arg[1] /\ anchorEnd = ret.arg[2])
    /\ [][ /\ ret'.op \in {"Builder.AddPattern", "Clear"} => RT' = RT
           /\ ret'.op = "Clear" => BuilderEntries(World', 1) = <<>>
           /\ (ret.op = "Clear" /\ ret'.op \in Builds) =>
                 ~ret'.nilTable /\ Len(maplets') = 0
         ]_vars

\* A builder of two patterns was cleared and given one pattern again, and
\* Build has returned a table of that one pattern: the second element of the
\* builder's array is still there and is no part of the table.
C20_Witness ==
    /\ ret.op = "Build" /\ ~ret.nilTable
    /\ builders[1].patterns.len = 1
    /\ Cap(arrays, builders[1].patterns) = 2
    /\ arrays[builders[1].patterns.arr][2] # ZeroEntry
    /\ Len(maplets) = 1
    /\ maplets[1].Pattern = BuilderEntries(World, 1)[1].pattern

(***************************************************************************)
(* C21.  Recompile of a table of zero entries returns no error, leaves the *)
(* table without a compiled matcher and clears the dirty flag.  Build of   *)
(* a builder that holds no entry therefore returns a table and no error,   *)
(* and every Lookup on that table returns the "no patterns configured"     *)
(* error with the zero value and no submatches: it does not panic.         *)
(***************************************************************************)
C21_EmptyTableCompilesToNothing ==
    \A s \in BOOLEAN, e \in BOOLEAN :
        LET r == Recompile(NewRegexpTable(s, e))
            b == Build(World, 1, s, e)
        IN  /\ r.err = NoErr
            /\ r.rt.compiled = NilRegexp
            /\ ~r.rt.needsRecompile
            /\ r.rt.maplets = <<>>
            /\ builders[1].patterns.len = 0 =>
                  /\ ~b.nil
                  /\ b.err = NoErr
                  /\ b.table = r.rt
                  /\ \A input \in Inputs :
                        LET l == Lookup(b.table, input)
                        IN  /\ l.err = ErrNoPatterns
                            /\ l.err # Panic
                            /\ l.value = Zero
                            /\ l.matches = NilMatches
            /\ (ret.op = "Build" /\ ret.arg = <<s, e>> /\ builders[1].patterns.len = 0) =>
                  /\ ~ret.nilTable
                  /\ ret.err = NoErr
                  /\ RT = r.rt

\* Build has returned the table of a builder that was cleared after entries
\* were added to it: the table has no entry and no matcher, and it is clean.
C21_Witness ==
    /\ ret.op = "Build" /\ ~ret.nilTable /\ ret.err = NoErr
    /\ builders[1].patterns.len = 0
    /\ builders[1].patterns.arr # 0
    /\ Len(maplets) = 0 /\ compiled.nil /\ ~needsRecompile

\* The i-th smallest element of a set of numbers.
NthOf(S, i) == CHOOSE k \in S : Cardinality({j \in S : j <= k}) = i

\* The entries of rt whose original pattern, anchored like the table, does not
\* compile on its own.
FailingAlone(rt) ==
    {k \in 1..Len(rt.maplets) : ~ValidPattern(anchorPattern(rt, rt.maplets[k].Pattern))}

\* The errors that the engine may give for a union whose entries all compile.
UnionCauses == {Compile(PatBad).err, Compile(PatOpen).err, Compile(PatClose).err}

(***************************************************************************)
(* C22.  When the combined pattern of a table with entries fails to        *)
(* compile, Recompile compiles each entry's original pattern on its own,   *)
(* anchored like the table.  If at least one fails, the error lists        *)
(* exactly the failing entries, each with its synthetic group name, its    *)
(* original pattern and its own compile error, in registration order, and  *)
(* lists no entry that compiles on its own.  If none fails, the error      *)
(* wraps the error of the combined compile.                                *)
(***************************************************************************)
C22_FailedRecompileNamesInvalidEntries ==
    LET c == Compile(anchorPattern(RT, unionPattern(RT)))
        r == Recompile(RT)
        failing == FailingAlone(RT)
        items == r.err.items
    IN  /\ (Len(maplets) > 0 /\ c.err # NoEngineErr /\ failing # {}) =>
              /\ r.err.kind = "failed to compile union regexp due to invalid patterns"
              /\ Len(items) = Cardinality(failing)
              /\ \A i \in 1..Len(items) :
                    LET vp == maplets[NthOf(failing, i)]
                    IN  /\ items[i].group = vp.GroupName
                        /\ items[i].pattern = vp.Pattern
                        /\ items[i].err = Compile(anchorPattern(RT, vp.Pattern)).err
              /\ (ret.op = "Recompile" /\ needsRecompile) => ret.err = r.err
        /\ (Len(maplets) > 0 /\ failing = {}) =>
              \A cause \in UnionCauses :
                 LET u == unionCompiled([RT EXCEPT !.compiled = NilRegexp], cause)
                 IN  /\ u.err = ErrUnion(cause)
                     /\ u.err.kind = "failed to compile union regexp"
                     /\ u.err.items = <<>>

\* Recompile has failed on a table of two entries of which only the second
\* does not compile on its own, and on one whose two entries both do not.
C22_Witness ==
    /\ ret.op = "Recompile" /\ Len(maplets) = 2
    /\ ret.err.kind = "failed to compile union regexp due to invalid patterns"
    /\ \/ FailingAlone(RT) = {2} /\ Len(ret.err.items) = 1
       \/ FailingAlone(RT) = {1, 2} /\ Len(ret.err.items) = 2

(***************************************************************************)
(* C23.  AddPattern always returns nil, for a pattern that does not        *)
(* compile too, and changes three things only: it appends one entry (the   *)
(* synthetic name of the old nextGroupID, the named-pattern text, the      *)
(* pattern, the value, no cached compilation) at the end of the entries,   *)
(* adds one to nextGroupID and sets needsRecompile.  The compiled matcher, *)
(* the lookup slice, the anchoring flags and the earlier entries stay as   *)
(* they were.                                                              *)
(***************************************************************************)
C23_AddPatternFrame ==
    [][ret'.op = "AddPattern" =>
          /\ ret'.err = NoErr
          /\ Len(maplets') = Len(maplets) + 1
          /\ SubSeq(maplets', 1, Len(maplets)) = maplets
          /\ maplets'[Len(maplets')] =
                [GroupName |-> SyntheticName(nextGroupID),
                 namedPattern |->
                     FormatNamedGroup(SyntheticName(nextGroupID), ret'.arg),
                 Value |-> ret'.value,
                 Pattern |-> ret'.arg,
                 compiledPattern |-> NilRegexp]
          /\ nextGroupID' = nextGroupID + 1
          /\ needsRecompile'
          /\ compiled' = compiled
          /\ lookup' = lookup
          /\ anchorStart' = anchorStart
          /\ anchorEnd' = anchorEnd]_vars

\* AddPattern has added a pattern that does not compile to a compiled table:
\* it returned nil and the matcher compiled before is still there.
C23_Witness ==
    /\ ret.op = "AddPattern" /\ ret.arg = PatBad /\ ret.err = NoErr
    /\ Len(maplets) = 2 /\ maplets[2].Pattern = PatBad
    /\ ~compiled.nil /\ Len(lookup) > 0 /\ needsRecompile

\* "^" if s, then "(?:" text ")", then "$" if e.
Wrapper(s, e, text) ==
    (IF s THEN <<Tok("^")>> ELSE <<>>)
    \o <<Tok("(?:")>> \o text \o <<Tok(")")>>
    \o (IF e THEN <<Tok("$")>> ELSE <<>>)

\* The named-pattern texts of the entries, in registration order.
NamedTexts(rt) == [k \in 1..Len(rt.maplets) |-> rt.maplets[k].namedPattern]

\* What the engine makes of the wrapper around the joined named patterns, and
\* of the wrapper around the original pattern of entry k.
CombinedCompilation(rt) ==
    Compile(Wrapper(rt.anchorStart, rt.anchorEnd, JoinedByBar(NamedTexts(rt))))

AloneCompilation(rt, pattern) == Compile(Wrapper(rt.anchorStart, rt.anchorEnd, pattern))

\* The table holds what Recompile, the validation and the fallback get from
\* the engine for exactly these texts.
CompilesTheWrappedTexts ==
    Len(maplets) > 0 =>
        LET r == Recompile(RT)
        IN  /\ r.rt.compiled = CombinedCompilation(RT).re
            /\ r.err \in {NoErr, Panic} <=> CombinedCompilation(RT).err = NoEngineErr
            /\ ~needsRecompile => compiled = CombinedCompilation(RT).re
            /\ \A i \in 1..Len(r.err.items) :
                  r.err.items[i].err = AloneCompilation(RT, r.err.items[i].pattern).err
            /\ \A k \in 1..Len(maplets) :
                  ~maplets[k].compiledPattern.nil =>
                      maplets[k].compiledPattern = AloneCompilation(RT, maplets[k].Pattern).re
            /\ \A input \in Inputs, k \in 1..Len(maplets) :
                  LET l == Lookup(RT, input)
                  IN  (l.err # Panic /\ ~l.rt.maplets[k].compiledPattern.nil) =>
                          l.rt.maplets[k].compiledPattern =
                              AloneCompilation(RT, maplets[k].Pattern).re

(***************************************************************************)
(* C24.  The text Recompile hands to the engine is "^" if anchorStart,     *)
(* then "(?:", the entries' named-pattern texts joined by "|" in           *)
(* registration order, ")", then "$" if anchorEnd: the matcher of the      *)
(* table is the engine's compilation of that text.  The validation of an   *)
(* entry and the fallback compile of an entry hand the engine the same     *)
(* wrapper around the entry's original pattern.  No operation changes      *)
(* anchorStart or anchorEnd after construction.                            *)
(***************************************************************************)
C24_TextsHandedToTheEngine ==
    /\ []CompilesTheWrappedTexts
    /\ [][anchorStart' = anchorStart /\ anchorEnd' = anchorEnd]_vars

\* A table anchored at both ends has been compiled with two entries, and a
\* fallback has compiled and cached the pattern of one of them.
C24_Witness ==
    /\ anchorStart /\ anchorEnd
    /\ Len(maplets) = 2 /\ ~compiled.nil /\ ~needsRecompile
    /\ compiled = CombinedCompilation(RT).re
    /\ \E k \in 1..Len(maplets) : ~maplets[k].compiledPattern.nil

\* The inputs of the fallback: those of the lookups, and one in which an entry
\* with capture groups of its own matches after the start.
FallbackInputs == Inputs \cup {<<"c", "a", "b">>}

\* The entry of rt that holds value.
EntryOfValue(rt, value) == CHOOSE k \in 1..Len(rt.maplets) : rt.maplets[k].Value = value

(***************************************************************************)
(* C25.  When the combined matcher matches with no text in any synthetic   *)
(* group and Lookup returns a value, the submatches it returns are the     *)
(* match of the winning entry's own pattern, anchored like the table:      *)
(* that pattern's full match followed by its own capture groups, 1 + (its  *)
(* own groups) elements.  They are not the submatch list of the combined   *)
(* matcher.                                                                *)
(***************************************************************************)
C25_FallbackReturnsIndividualMatch ==
    \A input \in FallbackInputs :
        LET e == ensureCompiled(RT)
            r == Lookup(RT, input)
        IN  (e.err = NoErr /\ AllSyntheticGroupsEmpty(e.rt, input) /\ r.err = NoErr) =>
                LET k == EntryOfValue(RT, r.value)
                    alone == AloneCompilation(RT, maplets[k].Pattern)
                    own == FindStringSubmatch(alone.re, input)
                IN  /\ \E j \in 1..Len(maplets) : maplets[j].Value = r.value
                    /\ alone.err = NoEngineErr
                    /\ ~own.nil
                    /\ r.matches = own
                    /\ Len(r.matches.v) = 1 + OwnGroups(maplets[k].Pattern)
                    /\ r.matches # FindStringSubmatch(e.rt.compiled, input)

\* A Lookup has taken the fallback and returned the winner's own match; and
\* the table is one on which the fallback returns the match of an entry with
\* two capture groups of its own: the full match and both groups.
C25_Witness ==
    /\ ret.op = "Lookup" /\ ret.err = NoErr
    /\ ~needsRecompile /\ AllSyntheticGroupsEmpty(RT, ret.arg)
    /\ ret.matches = FindStringSubmatch(AloneCompilation(RT, maplets[ret.value].Pattern).re,
                                        ret.arg)
    /\ AllSyntheticGroupsEmpty(RT, <<"c", "a", "b">>)
    /\ Lookup(RT, <<"c", "a", "b">>).matches =
          [nil |-> FALSE, v |-> << <<"a", "b">>, <<"a">>, <<"b">> >>]

\* The engine honours its contract on rt: every entry's pattern compiles on
\* its own, anchored like the table, and the combined matcher matches an input
\* only if the pattern of some entry matches it on its own.
HonoursContract(rt) ==
    /\ FailingAlone(rt) = {}
    /\ \A input \in FallbackInputs :
          (~rt.compiled.nil /\ ~FindStringSubmatch(rt.compiled, input).nil)
              => \E k \in 1..Len(rt.maplets) : IndividuallyMatches(rt, k, input)

(***************************************************************************)
(* C26.  On a table on which the engine honours its contract, Lookup never *)
(* returns "internal error: match found but no capture group matched",     *)
(* whatever AddPattern, Recompile and Lookup calls came before; when the   *)
(* table compiles and no entry's pattern matches the input, Lookup returns *)
(* "no pattern matched".                                                   *)
(***************************************************************************)
C26_NoInternalErrorUnderContract ==
    /\ (ret.op = "Lookup" /\ HonoursContract(RT)) => ret.err # ErrInternal
    /\ \A input \in FallbackInputs :
          LET e == ensureCompiled(RT)
              r == Lookup(RT, input)
          IN  (e.err = NoErr /\ Len(maplets) > 0 /\ HonoursContract(e.rt)) =>
                  /\ r.err # ErrInternal
                  /\ r.err.kind # "internal error: match found but no capture group matched"
                  /\ (\A k \in 1..Len(maplets) : ~IndividuallyMatches(RT, k, input))
                        => r.err = ErrNoMatch

\* A Lookup on a table that honours the contract took the fallback, passed
\* over the first entry and returned the second; the same table answers "no
\* pattern matched" for an input that no entry matches.
C26_Witness ==
    /\ ret.op = "Lookup" /\ ret.err = NoErr /\ ret.value = 2
    /\ HonoursContract(RT) /\ ~needsRecompile
    /\ AllSyntheticGroupsEmpty(RT, ret.arg)
    /\ ~IndividuallyMatches(RT, 1, ret.arg)
    /\ \E input \in FallbackInputs : Lookup(RT, input).err = ErrNoMatch

\* What a Lookup returned obeys the rule of the failure paths.
FailureReturnsNothing(value, matches, err) ==
    /\ err # NoErr => value = Zero /\ matches = NilMatches
    /\ ~matches.nil => err = NoErr /\ Len(matches.v) >= 1

(***************************************************************************)
(* C27.  Whenever Lookup returns an error (a compile error, "no patterns   *)
(* configured", "no pattern matched" or the internal error), the value it  *)
(* returns is the zero value and the submatch list is nil.  A submatch     *)
(* list that is not nil comes with a nil error only, and it has at least   *)
(* one element.                                                            *)
(***************************************************************************)
C27_FailuresReturnZeroAndNil ==
    /\ (ret.op = "Lookup" /\ ret.err # Panic)
          => FailureReturnsNothing(ret.value, ret.matches, ret.err)
    /\ \A input \in FallbackInputs :
          LET r == Lookup(RT, input)
          IN  r.err # Panic => FailureReturnsNothing(r.value, r.matches, r.err)

\* Lookup has returned the internal error with the zero value and no
\* submatches, on a table of two entries whose first entry alone makes Lookup
\* return a compile error.
C27_Witness ==
    /\ ret.op = "Lookup" /\ ret.err = ErrInternal
    /\ ret.value = Zero /\ ret.matches = NilMatches
    /\ Len(maplets) = 2
    /\ IsCompileErr(Lookup([RT EXCEPT !.maplets = SubSeq(maplets, 1, 1),
                               !.needsRecompile = TRUE], ret.arg).err)

(***************************************************************************)
(* C28.  Lookup and Recompile add, drop, reorder and alter no entry:       *)
(* across a call of either, whether it succeeds or fails, the table has    *)
(* the same number of entries and each entry keeps its synthetic name, its *)
(* named-pattern text, its original pattern and its value at its place;    *)
(* the cached compilation of an entry is the only field that may differ,   *)
(* and nextGroupID stays.                                                  *)
(***************************************************************************)
C28_LookupAndRecompileKeepEntries ==
    [][ret'.op \in {"Lookup", "Recompile"} =>
          /\ Len(maplets') = Len(maplets)
          /\ \A k \in 1..Len(maplets) : SameButCache(k)
          /\ nextGroupID' = nextGroupID
          /\ ret'.op = "Recompile" => maplets' = maplets]_vars

\* A Lookup that returned a compile error has left both entries of the table
\* in place, the cache that an earlier Lookup filled included.
C28_Witness ==
    /\ ret.op = "Lookup" /\ IsCompileErr(ret.err) /\ Len(maplets) = 2
    /\ \E k \in 1..Len(maplets) : ~maplets[k].compiledPattern.nil

\* The last call was a Recompile, made directly or by AddAndCheckPattern or by
\* Lookup, that returned a compile error.
CompileFailedLast ==
    /\ ret.op \in {"Recompile", "AddAndCheckPattern", "Lookup"}
    /\ IsCompileErr(ret.err)

\* After a failed compilation the table is dirty and holds no matcher, and the
\* next Recompile and the next Lookup of any input return the same error.
FailureIsNotMasked ==
    CompileFailedLast =>
        /\ needsRecompile
        /\ compiled.nil
        /\ Recompile(RT).err = ret.err
        /\ Recompile(RT).rt = RT
        /\ \A input \in FallbackInputs :
              LET r == Lookup(RT, input)
              IN  /\ r.err = ret.err
                  /\ r.value = Zero /\ r.matches = NilMatches
                  /\ r.rt = RT

\* While no entry is added, the failure lasts: the Lookup or Recompile that
\* follows a failed compilation returns the same error and leaves the table
\* dirty, and a failing AddAndCheckPattern leaves its entry in the table.
FailureLastsWhileEntriesStay ==
    /\ []FailureIsNotMasked
    /\ [][/\ (CompileFailedLast /\ ret'.op \in {"Recompile", "Lookup"})
                => ret'.err = ret.err /\ needsRecompile' /\ maplets' = maplets
          /\ (ret'.op = "AddAndCheckPattern" /\ IsCompileErr(ret'.err))
                => /\ Len(maplets') = Len(maplets) + 1
                   /\ SubSeq(maplets', 1, Len(maplets)) = maplets
                   /\ maplets'[Len(maplets')].Pattern = ret'.arg
                   /\ needsRecompile']_vars

(***************************************************************************)
(* C29.  A failed compilation is never masked: once Recompile, called      *)
(* directly or by AddAndCheckPattern or by Lookup, has returned a compile  *)
(* error, the table is dirty, the entry that does not compile stays        *)
(* registered, and the Lookups and Recompiles that follow return a compile *)
(* error again, whatever the input: right after the failure, and after     *)
(* whichever call is made next.                                            *)
(***************************************************************************)
C29_FailedCompilationIsNotMasked ==
    /\ []FailureIsNotMasked
    /\ [][CompileFailedLast =>
              /\ Len(maplets') >= Len(maplets)
              /\ SubSeq(maplets', 1, Len(maplets)) = maplets
              /\ IsCompileErr(Recompile(RT').err)
              /\ \A input \in Inputs : IsCompileErr(Lookup(RT', input).err)]_vars

(***************************************************************************)
(* C30.  Lookup reads no submatch position beyond the end of the list the  *)
(* engine returned.  With any engine, one whose FindStringSubmatch result  *)
(* is shorter than its SubexpNames list included, a Lookup on a table that *)
(* compiled does not panic with an index out of range, in the scan for the *)
(* winner and in the collection of the winner's own submatches.            *)
(***************************************************************************)
C30_LookupStaysWithinMatches ==
    (ret.op = "Lookup" /\ ~needsRecompile) => ret.err # Panic

====
